---- MODULE Spec2Model ----
(***************************************************************************)
(* A model of payload_extract: the payload parser (InitPayloadInfo), the   *)
(* extraction dispatcher (ExtractPartitionsFromPayload,                    *)
(* extractPartitionFromPayload), the pool workers (extractOperationToFile, *)
(* write_zero) and the legacy single-partition extractor                   *)
(* (doExtractBootFromPayload).                                             *)
(*                                                                         *)
(* Byte sizes are scaled down: a block is BlockSize = 2 bytes, the data    *)
(* blob is 4 bytes.  Bytes are naturals below 256.                         *)
(***************************************************************************)
EXTENDS Integers, Sequences, FiniteSets, TLC

\* ------------------------------------------------------------------ bounds
MaxOps == 2          \* operations per partition in the extraction inputs
MaxWorkers == 2      \* largest worker count max_workers
MaxParts == 3        \* partitions per manifest in the selection inputs
MaxSel == 2          \* names in the selection list partitions_name

\* --------------------------------------------------------- small helpers
Min(a, b) == IF a < b THEN a ELSE b
Max(a, b) == IF a > b THEN a ELSE b
Zeros(n) == [i \in 1..n |-> 0]
Range(s) == {s[i] : i \in 1..Len(s)}
SetMax(S) == CHOOSE x \in S : \A y \in S : y <= x

\* encoding/binary BigEndian: a w-byte unsigned integer
RECURSIVE PutBigEndian(_, _)
PutBigEndian(v, w) ==
    IF w = 0 THEN <<>> ELSE PutBigEndian(v \div 256, w - 1) \o <<v % 256>>

RECURSIVE BigEndian(_)
BigEndian(b) ==
    IF Len(b) = 0 THEN 0
    ELSE 256 * BigEndian(SubSeq(b, 1, Len(b) - 1)) + b[Len(b)]

\* ------------------------------------------------------- payload format
PAYLOAD_MAGIC == <<67, 114, 65, 85>>          \* "CrAU"
HdrSize == 24                                  \* binary.Size(PayloadHdr)
NoManifest == [none |-> TRUE]

\* The header as it lies in the file: magic, version, manifest_len, sig_len.
EncodeHdr(h) ==
    h.Magic \o PutBigEndian(h.Version, 8) \o PutBigEndian(h.ManifestLen, 8)
            \o PutBigEndian(h.ManifestSigLen, 4)

\* binary.Decode of the 24 header bytes into PayloadHdr
DecodeHdr(b) ==
    [Magic |-> SubSeq(b, 1, 4),
     Version |-> BigEndian(SubSeq(b, 5, 12)),
     ManifestLen |-> BigEndian(SubSeq(b, 13, 20)),
     ManifestSigLen |-> BigEndian(SubSeq(b, 21, 24))]

ZeroHdr == [Magic |-> <<0, 0, 0, 0>>, Version |-> 0, ManifestLen |-> 0,
            ManifestSigLen |-> 0]

\* The protobuf encoding of a manifest, abridged to two of its fields as
\* varints: minor_version (field 12, tag byte 0x60) and block_size (field 3,
\* tag byte 0x18).  The other fields travel in the record m itself.
ManifestBytes(m) == <<96, m.minor_version, 24, m.block_size>>
SigBytes == <<200>>

\* proto Unmarshal of buf, which encodes (the fields of) m.  A buffer that is
\* not a whole message (a zero tag left by a short read) is a decode error.
Unmarshal(buf, m) ==
    IF Len(buf) = 4 /\ buf[1] = 96 /\ buf[3] = 24
    THEN [err |-> "nil",
          manifest |-> [m EXCEPT !.minor_version = buf[2], !.block_size = buf[4]]]
    ELSE [err |-> "decode", manifest |-> NoManifest]

\* ------------------------------------------------ the source: an os.File
\* (*os.File).Read: n bytes wanted at cursor p of the file s.  buf is the
\* caller's zeroed buffer after the call.
FileRead(s, p, n) ==
    IF n = 0 THEN [cnt |-> 0, err |-> "nil", buf |-> <<>>, pos |-> p]
    ELSE IF p >= Len(s)
         THEN [cnt |-> 0, err |-> "EOF", buf |-> Zeros(n), pos |-> p]
         ELSE LET c == Min(n, Len(s) - p)
              IN [cnt |-> c, err |-> "nil",
                  buf |-> SubSeq(s, p + 1, p + c) \o Zeros(n - c),
                  pos |-> p + c]

\* (*os.File).Seek with io.SeekCurrent: a negative result is an error and the
\* cursor stays.
FileSeekCurrent(p, off) == IF p + off < 0 THEN p ELSE p + off

\* io.ReadFull as binary.Read uses it: all n bytes or an error.
ReadFull(s, p, n) ==
    LET c == Min(n, Max(Len(s) - p, 0))
    IN [cnt |-> c, err |-> IF c < n THEN "EOF" ELSE "nil",
        buf |-> SubSeq(s, p + 1, p + c), pos |-> p + c]

\* ----------------------------------- the source: a ZipPayloadReader
\* What follows the payload.bin entry in the archive (the next "PK" record).
ZipTrailer == <<80, 75>>

\* The kinds of source handed to the core.  r.chunk bounds what one Read of
\* a deflate stream returns (0: no bound).
LocalFile == [kind |-> "file", chunk |-> 0]
ZipStored == [kind |-> "zip_store", chunk |-> 0]
ZipDeflated(c) == [kind |-> "zip_deflate", chunk |-> c]

\* ZipPayloadReader.Read at cursor p of the entry s.  Stored: or.ReadAt on
\* the archive, all n bytes or an error and no progress.  Deflated: one Read
\* of the stream opened at p, which may return fewer bytes than asked.
ZipPayloadReader_Read(r, s, p, n) ==
    IF r.kind = "zip_store"
    THEN LET a == s \o ZipTrailer
         IN IF n = 0 THEN [cnt |-> 0, err |-> "nil", buf |-> <<>>, pos |-> p]
            ELSE IF p + n <= Len(a)
            THEN [cnt |-> n, err |-> "nil", buf |-> SubSeq(a, p + 1, p + n),
                  pos |-> p + n]
            ELSE [cnt |-> 0, err |-> "EOF",
                  buf |-> SubSeq(a, p + 1, Len(a)) \o Zeros(n - Max(Len(a) - p, 0)),
                  pos |-> p]
    ELSE IF n = 0 THEN [cnt |-> 0, err |-> "nil", buf |-> <<>>, pos |-> p]
         ELSE IF p >= Len(s)
         THEN [cnt |-> 0, err |-> "EOF", buf |-> Zeros(n), pos |-> p]
         ELSE LET want == IF r.chunk > 0 THEN Min(n, r.chunk) ELSE n
                  c == Min(want, Len(s) - p)
              IN [cnt |-> c, err |-> "nil",
                  buf |-> SubSeq(s, p + 1, p + c) \o Zeros(n - c),
                  pos |-> p + c]

\* ZipPayloadReader.Seek to the target q: r.pos = min(UncompressedSize64-1, q)
ZipPayloadReader_Seek(s, q) == Min(Len(s) - 1, q)

\* reader.Read, reader.Seek(off, io.SeekCurrent), reader.Seek(q, io.SeekStart)
\* and io.ReadFull(reader) of the io.ReadSeeker r over the payload bytes s.
ReaderRead(r, s, p, n) ==
    IF r.kind = "file" THEN FileRead(s, p, n) ELSE ZipPayloadReader_Read(r, s, p, n)
ReaderSeekCurrent(r, s, p, off) ==
    IF r.kind = "file" THEN FileSeekCurrent(p, off)
    ELSE ZipPayloadReader_Seek(s, p + off)
ReaderSeekStart(r, s, q) ==
    IF r.kind = "file" THEN q ELSE ZipPayloadReader_Seek(s, q)
ReaderReadFull(r, s, p, n) ==
    IF r.kind = "zip_store"
    THEN LET rd == ZipPayloadReader_Read(r, s, p, n)
         IN [rd EXCEPT !.buf = SubSeq(rd.buf, 1, rd.cnt)]
    ELSE ReadFull(s, p, n)

\* InitPayloadInfo without the minor_version test: delta payloads pass.
InitPayloadInfo_NoMinorCheck(r, s, p, m) ==
    LET rd == ReaderReadFull(r, s, p, HdrSize)
        hdr == IF rd.err = "nil" THEN DecodeHdr(rd.buf) ELSE ZeroHdr
        fail(e, q) == [err |-> e, manifest |-> NoManifest, pos |-> q,
                       version |-> hdr.Version]
    IN  IF hdr.Magic # PAYLOAD_MAGIC THEN fail("invalid magic", rd.pos)
        ELSE IF hdr.ManifestLen = 0 THEN fail("manifest length is zero", rd.pos)
        ELSE IF hdr.ManifestSigLen = 0
             THEN fail("manifest signature length is zero", rd.pos)
        ELSE LET mr == ReaderRead(r, s, rd.pos, hdr.ManifestLen)
             IN IF mr.err # "nil" THEN fail(mr.err, mr.pos)
                ELSE LET um == Unmarshal(mr.buf, m)
                     IN IF um.err # "nil" THEN fail(um.err, mr.pos)
                        ELSE [err |-> "nil", manifest |-> um.manifest,
                              pos |-> ReaderSeekCurrent(r, s, mr.pos, hdr.ManifestSigLen),
                              version |-> hdr.Version]

\* InitPayloadInfo testing the magic only after it has read the manifest.
InitPayloadInfo_MagicLate(r, s, p, m) ==
    LET rd == ReaderReadFull(r, s, p, HdrSize)
        hdr == IF rd.err = "nil" THEN DecodeHdr(rd.buf) ELSE ZeroHdr
        fail(e, q) == [err |-> e, manifest |-> NoManifest, pos |-> q,
                       version |-> hdr.Version]
        mr == ReaderRead(r, s, rd.pos, hdr.ManifestLen)
    IN  IF hdr.Magic # PAYLOAD_MAGIC THEN fail("invalid magic", mr.pos)
        ELSE IF hdr.ManifestLen = 0 THEN fail("manifest length is zero", rd.pos)
        ELSE IF hdr.ManifestSigLen = 0
             THEN fail("manifest signature length is zero", rd.pos)
        ELSE IF mr.err # "nil" THEN fail(mr.err, mr.pos)
        ELSE LET um == Unmarshal(mr.buf, m)
             IN IF um.err # "nil" THEN fail(um.err, mr.pos)
                ELSE IF um.manifest.minor_version # 0
                     THEN fail("delta payloads are not supported", mr.pos)
                ELSE [err |-> "nil", manifest |-> um.manifest,
                      pos |-> ReaderSeekCurrent(r, s, mr.pos, hdr.ManifestSigLen),
                      version |-> hdr.Version]

\* ------------------------------------------------------ InitPayloadInfo
\* r: the reader, s: the payload bytes behind it, p: its cursor, m: the
\* manifest the bytes encode.
\* Returns the error ("nil" for none), the manifest and the cursor left.
InitPayloadInfo(r, s, p, m) ==
    LET rd == ReaderReadFull(r, s, p, HdrSize)
        \* binary.Read's error is dropped: the header stays zero
        hdr == IF rd.err = "nil" THEN DecodeHdr(rd.buf) ELSE ZeroHdr
        fail(e, q) == [err |-> e, manifest |-> NoManifest, pos |-> q,
                       version |-> hdr.Version]
    IN  IF hdr.Magic # PAYLOAD_MAGIC THEN fail("invalid magic", rd.pos)
        ELSE IF hdr.ManifestLen = 0 THEN fail("manifest length is zero", rd.pos)
        ELSE IF hdr.ManifestSigLen = 0
             THEN fail("manifest signature length is zero", rd.pos)
        ELSE LET mr == ReaderRead(r, s, rd.pos, hdr.ManifestLen)
             IN IF mr.err # "nil" THEN fail(mr.err, mr.pos)
                ELSE LET um == Unmarshal(mr.buf, m)
                     IN IF um.err # "nil" THEN fail(um.err, mr.pos)
                        ELSE IF um.manifest.minor_version # 0
                             THEN fail("delta payloads are not supported", mr.pos)
                        ELSE [err |-> "nil", manifest |-> um.manifest,
                              pos |-> ReaderSeekCurrent(r, s, mr.pos, hdr.ManifestSigLen),
                              version |-> hdr.Version]

\* ------------------------------------------------------- the output file
\* (*os.File).WriteAt on a file with content f: a positioned write, which
\* extends the file (zero filled) when it ends past the end of file.
WriteAt(f, d, off) ==
    IF Len(d) = 0 THEN f
    ELSE [i \in 1..Max(Len(f), off + Len(d)) |->
            IF i > off /\ i <= off + Len(d) THEN d[i - off]
            ELSE IF i <= Len(f) THEN f[i] ELSE 0]

\* 1MB Zero buffer (scaled with the other byte sizes)
ZeroBufferLen == 2

\* One turn of write_zero's loop: the bytes it writes with total_write = tw.
write_zero_chunk(size, tw) ==
    IF tw + ZeroBufferLen > size THEN size - tw ELSE ZeroBufferLen

\* ------------------------------------------------------------ the codecs
Rep(b, n) == [i \in 1..n |-> b]

\* A decompressor stand-in shared by the two codecs: the stream is a list of
\* (count, byte) pairs; a zero count or a cut pair is a corrupt stream, and
\* what was decoded before it has been produced.
RECURSIVE RunLength(_)
RunLength(d) ==
    IF Len(d) = 0 THEN [out |-> <<>>, err |-> "nil"]
    ELSE IF Len(d) = 1 \/ d[1] = 0 THEN [out |-> <<>>, err |-> "corrupt"]
    ELSE LET r == RunLength(SubSeq(d, 3, Len(d)))
         IN [out |-> Rep(d[2], d[1]) \o r.out, err |-> r.err]

\* bzip2.NewReader(breader) / xz.NewDecompressionReader(breader), read to the
\* end by io.Copy: an empty stream is an error too.
Decompress(d) ==
    IF Len(d) = 0 THEN [out |-> <<>>, err |-> "corrupt"] ELSE RunLength(d)

\* ------------------------------------------------------------ operations
Op(t, off, len, exts) ==
    [type |-> t, data_offset |-> off, data_length |-> len, dst_extents |-> exts]
Ext(s, n) == [start_block |-> s, num_blocks |-> n]

last(s) == s[Len(s)]

\* total_length of ExtractPartitionsFromPayload: the last extent of the last
\* operation, in the manifest's order.
total_length(p, block_size) ==
    LET last_operation == last(p.operations)
        last_extents == last(last_operation.dst_extents)
    IN (last_extents.start_block + last_extents.num_blocks) * block_size

\* The total_length closure dereferences what last returned: with no
\* operation, or no extent in the last operation, that is the nil pointer
\* last returns for an empty slice, and the dereference panics.
NilDereference(p) ==
    p.operations = <<>> \/ last(p.operations).dst_extents = <<>>

\* out_offset handed to extractOperationToFile
out_offset_NoBlockSize(op, block_size) == op.dst_extents[1].start_block
out_offset(op, block_size) == op.dst_extents[1].start_block * block_size

\* sort.Slice by DataOffset.  The order of operations with equal offsets is
\* not specified: every sorted arrangement is a possible outcome.
SortedByDataOffset(ops) ==
    {[i \in 1..Len(ops) |-> ops[f[i]]] : f \in
        {g \in Permutations(1..Len(ops)) :
            \A i, j \in 1..Len(ops) :
                i < j => ops[g[i]].data_offset <= ops[g[j]].data_offset}}

\* A selection that ignores the list and takes every partition.
SelectParts_All(m, names) == m.partitions

\* The selection of ExtractPartitionsFromPayload
SelectParts(m, names) ==
    IF Len(names) = 0 THEN m.partitions
    ELSE SelectSeq(m.partitions, LAMBDA p : p.partition_name \in Range(names))

ImgPath(p) == p.partition_name \o ".img"

\* ============================================================== the state
VARIABLES
    src,               \* the bytes of the input file (an os.File)
    manifest,          \* the manifest the file's manifest bytes encode
    partitions_name,   \* the selection list
    max_workers,       \* the pool size
    entry,             \* the entry point run: "extract" or "boot"
    partition,         \* ExtractBootFromPayload's partition argument
    pc,                \* where the dispatcher (the caller's thread) stands
    pos,               \* the source cursor
    err,               \* the error that ended the run ("nil" for none)
    parsed,            \* the manifest InitPayloadInfo returned
    baseoff,           \* the data-blob base captured after the parse
    all_parts,         \* the selected partitions, in order
    idx,               \* the partition being extracted (index in all_parts)
    operations,        \* its operations, sorted
    opi,               \* the operation being read (index in operations)
    curr_data_offset,
    data,              \* the buffer read for operations[opi]
    files,             \* out_dir: file name -> content
    fdOpen,            \* the partitions (indices) whose output fd is open
    wg,                \* one WaitGroup counter per partition (index)
    tasks,             \* the tasks running in the pool
    extracted,         \* names of the partitions whose extraction began
    source,            \* the kind of reader handed to the core
    create_fails,      \* the partitions (indices) whose os.Create fails
    truncate_fails,    \* the partitions (indices) whose fd.Truncate fails
    logged,            \* the errors the dispatcher logged, per partition
    finished,          \* the worker tasks that returned, with their error
    reads,             \* the operation reads issued: where, after which seek
    archive,           \* a ZIP archive: its entries in order
    zfr,               \* a ZipFileSeekReader over the archive
    zpr,               \* a ZipPayloadReader over the archive
    server,            \* how the HTTP server answers
    rrs,               \* a RangeReadSeeker over the server's file
    ret                \* what the last reader call returned

inputs == <<src, manifest, partitions_name, max_workers, entry, partition,
            source, create_fails, truncate_fails>>
dispatcher == <<pc, pos, err, parsed, baseoff, all_parts, idx, operations, opi,
                curr_data_offset, data, extracted>>
history == <<logged, finished, reads>>
readers == <<archive, zfr, zpr, server, rrs, ret>>
vars == <<inputs, dispatcher, files, fdOpen, wg, tasks, history, readers>>

\* ================================================================= inputs
Blob == <<2, 7, 1, 9>>
BlockSizes == {2}

OpCatalog ==
    { Op("REPLACE", 0, 2, <<Ext(0, 1)>>),      \* a whole block
      Op("REPLACE", 2, 2, <<Ext(1, 1)>>),
      Op("REPLACE", 1, 1, <<Ext(2, 1)>>),      \* less than its block
      Op("REPLACE", 0, 4, <<Ext(0, 1)>>),      \* more than its extent
      Op("REPLACE", 3, 2, <<Ext(1, 1)>>),      \* window cut by the end of file
      Op("REPLACE", 4, 2, <<Ext(1, 1)>>),      \* window past the end of file
      Op("ZERO", 0, 0, <<Ext(1, 1)>>),
      Op("ZERO", 0, 0, <<Ext(0, 1), Ext(2, 1)>>),
      Op("ZERO", 4, 0, <<Ext(0, 3)>>),
      Op("REPLACE_BZ", 0, 2, <<Ext(0, 1)>>),   \* decodes to one block
      Op("REPLACE_BZ", 0, 3, <<Ext(1, 1)>>),   \* a cut stream
      Op("REPLACE_XZ", 2, 2, <<Ext(2, 1)>>),
      Op("MOVE", 0, 0, <<Ext(0, 1)>>) }        \* a type the core does not know

\* The operations of the inputs that extract one manifest twice, the second
\* time shuffled.
ShuffleCatalog ==
    { Op("REPLACE", 0, 2, <<Ext(0, 1)>>),
      Op("REPLACE", 2, 2, <<Ext(1, 1)>>),
      Op("REPLACE", 1, 1, <<Ext(2, 1)>>),
      Op("ZERO", 0, 0, <<Ext(1, 1)>>) }

SeqsUpTo(S, lo, hi) == UNION {[1..n -> S] : n \in lo..hi}

Names == {"boot", "system", "vendor"}

GoodHdr(m) == [Magic |-> PAYLOAD_MAGIC, Version |-> 2,
               ManifestLen |-> Len(ManifestBytes(m)),
               ManifestSigLen |-> Len(SigBytes)]

Payload(h, m) == EncodeHdr(h) \o ManifestBytes(m) \o SigBytes \o Blob

Manifest(minor, bs, parts) ==
    [minor_version |-> minor, block_size |-> bs, partitions |-> parts]
Partition(name, ops) == [partition_name |-> name, operations |-> ops]

EmptyDir == [n \in {} |-> <<>>]

InitRun ==
    /\ pc = "start" /\ pos = 0 /\ err = "nil" /\ baseoff = 0
    /\ parsed = NoManifest
    /\ all_parts = <<>> /\ idx = 0 /\ operations = <<>> /\ opi = 0
    /\ curr_data_offset = 0 /\ data = <<>>
    /\ fdOpen = {} /\ wg = <<>> /\ tasks = {} /\ extracted = <<>>
    /\ logged = <<>> /\ finished = {} /\ reads = <<>>

\* A local file as the source and an output directory that takes every write.
FaultFree == source = LocalFile /\ create_fails = {} /\ truncate_fails = {}

\* No ZIP or HTTP reader under test.
NoReader == [state |-> "none"]
ReadersIdle ==
    /\ archive = <<>> /\ zfr = NoReader /\ zpr = NoReader
    /\ server = NoReader /\ rrs = NoReader /\ ret = NoReader

\* Headers of every kind before a one-partition manifest, whole and cut files.
InitHeader ==
    /\ \E mg \in {PAYLOAD_MAGIC, <<65, 65, 65, 65>>}, v \in {2, 3},
          ml \in {0, 4}, sl \in {0, 1}, minor \in {0, 1} :
          LET m == Manifest(minor, 2,
                       <<Partition("boot", <<Op("REPLACE", 0, 2, <<Ext(0, 1)>>)>>)>>)
              whole == Payload([Magic |-> mg, Version |-> v, ManifestLen |-> ml,
                                ManifestSigLen |-> sl], m)
          IN /\ manifest = m
             /\ \E cut \in {10, HdrSize, HdrSize + 2, Len(whole)} :
                    src = SubSeq(whole, 1, cut)
    /\ partitions_name = <<>>
    /\ max_workers = 1
    /\ \/ entry = "extract" /\ partition = ""
       \/ entry = "boot" /\ partition \in {"", "boot", "vendor"}
    /\ files \in {EmptyDir, [n \in {"old.img"} |-> <<9>>]}

\* Selections over manifests of several partitions.
InitSelect ==
    /\ \E names \in SeqsUpTo(Names, 1, MaxParts) :
          manifest = Manifest(0, 2,
              [i \in 1..Len(names) |->
                  Partition(names[i], <<Op("REPLACE", 0, 2, <<Ext(i - 1, 1)>>)>>)])
    /\ src = Payload(GoodHdr(manifest), manifest)
    /\ partitions_name \in SeqsUpTo(Names \cup {"recovery"}, 0, MaxSel)
    /\ max_workers = 1
    /\ entry = "extract" /\ partition = ""
    /\ files = EmptyDir

\* One partition, every list of operations of the catalog, every pool size.
InitOps ==
    /\ \E ops \in SeqsUpTo(OpCatalog, 1, MaxOps), bs \in BlockSizes :
          manifest = Manifest(0, bs, <<Partition("system", ops)>>)
    /\ src = Payload(GoodHdr(manifest), manifest)
    /\ partitions_name = <<>>
    /\ max_workers \in 1..MaxWorkers
    /\ entry = "extract" /\ partition = ""
    /\ files = EmptyDir

\* Two partitions holding the same operations, the second one shuffled.
InitShuffle ==
    /\ \E ops \in SeqsUpTo(ShuffleCatalog, 2, MaxOps), bs \in BlockSizes :
       \E f \in Permutations(1..Len(ops)) :
          manifest = Manifest(0, bs,
              <<Partition("system_a", ops),
                Partition("system_b", [i \in 1..Len(ops) |-> ops[f[i]]])>>)
    /\ src = Payload(GoodHdr(manifest), manifest)
    /\ partitions_name = <<>>
    /\ max_workers = MaxWorkers
    /\ entry = "extract" /\ partition = ""
    /\ files = EmptyDir

\* Operations that fail, in the worker or at the read, beside one that
\* succeeds.
FailureCatalog ==
    { Op("REPLACE", 0, 2, <<Ext(0, 1)>>),
      Op("REPLACE", 4, 2, <<Ext(1, 1)>>),      \* read error: window past the end
      Op("REPLACE_BZ", 0, 3, <<Ext(1, 1)>>),   \* codec error: a cut stream
      Op("MOVE", 0, 0, <<Ext(0, 1)>>) }        \* unknown type

\* A partition whose operations fail, followed by one that is sound.
InitFailures ==
    /\ \E ops \in SeqsUpTo(FailureCatalog, MaxOps, MaxOps) :
          manifest = Manifest(0, 2,
              <<Partition("system", ops),
                Partition("vendor", <<Op("REPLACE", 0, 2, <<Ext(0, 1)>>)>>)>>)
    /\ src = Payload(GoodHdr(manifest), manifest)
    /\ partitions_name = <<>>
    /\ max_workers \in 1..MaxWorkers
    /\ entry = "extract" /\ partition = ""
    /\ files = EmptyDir

\* The legacy entry point without a partition name, over manifests with and
\* without init_boot and boot.
InitBoot ==
    /\ \E names \in SeqsUpTo({"init_boot", "boot", "system"}, 0, MaxSel) :
          manifest = Manifest(0, 2,
              [i \in 1..Len(names) |->
                  Partition(names[i], <<Op("REPLACE", 0, 2, <<Ext(i - 1, 1)>>)>>)])
    /\ src = Payload(GoodHdr(manifest), manifest)
    /\ partitions_name = <<>>
    /\ max_workers = 1
    /\ entry = "boot" /\ partition = ""
    /\ files = EmptyDir

Init ==
    /\ InitRun /\ ReadersIdle /\ FaultFree
    /\ \/ InitHeader \/ InitSelect \/ InitOps \/ InitShuffle \/ InitFailures
       \/ InitBoot

\* Two sound partitions and an output directory in which os.Create or
\* fd.Truncate fails for some of them; a payload the parser rejects.
InitFault ==
    /\ \E mg \in {PAYLOAD_MAGIC, <<65, 65, 65, 65>>} :
          /\ manifest = Manifest(0, 2,
                <<Partition("boot", <<Op("REPLACE", 0, 2, <<Ext(0, 1)>>)>>),
                  Partition("system", <<Op("REPLACE", 2, 2, <<Ext(0, 1)>>),
                                        Op("ZERO", 0, 0, <<Ext(1, 1)>>)>>)>>)
          /\ src = Payload([GoodHdr(manifest) EXCEPT !.Magic = mg], manifest)
    /\ partitions_name = <<>>
    /\ max_workers \in 1..MaxWorkers
    /\ entry = "extract" /\ partition = ""
    /\ files = EmptyDir
    /\ source = LocalFile
    /\ create_fails \in SUBSET {1, 2}
    /\ truncate_fails \in SUBSET {1, 2}

\* One partition read through a ZipPayloadReader, stored or deflated (with
\* Reads of the stream that return all, or at most 1 or 3 bytes); the
\* payload with its data blob and without one.
InitSource ==
    /\ \E ops \in SeqsUpTo(OpCatalog, 1, MaxOps), bs \in BlockSizes :
          manifest = Manifest(0, bs, <<Partition("system", ops)>>)
    /\ \E blob \in {0, Len(Blob)} :
          src = SubSeq(Payload(GoodHdr(manifest), manifest), 1,
                       HdrSize + Len(ManifestBytes(manifest)) + Len(SigBytes) + blob)
    /\ partitions_name = <<>>
    /\ max_workers = MaxWorkers
    /\ entry = "extract" /\ partition = ""
    /\ files = EmptyDir
    /\ source \in {ZipStored, ZipDeflated(0), ZipDeflated(1), ZipDeflated(3)}
    /\ create_fails = {} /\ truncate_fails = {}

\* A worker count of zero (-T 0): nothing checks it before it reaches
\* ants.NewPool.
InitPool ==
    /\ \E ops \in SeqsUpTo(ShuffleCatalog, MaxOps, MaxOps) :
          manifest = Manifest(0, 2, <<Partition("system", ops)>>)
    /\ src = Payload(GoodHdr(manifest), manifest)
    /\ partitions_name = <<>>
    /\ max_workers = 0
    /\ entry = "extract" /\ partition = ""
    /\ files = EmptyDir
    /\ source = LocalFile
    /\ create_fails = {} /\ truncate_fails = {}

\* Operations without a destination extent, beside one that has one.
DegenerateCatalog ==
    { Op("REPLACE", 0, 2, <<>>),
      Op("ZERO", 0, 0, <<>>),
      Op("MOVE", 0, 0, <<>>),
      Op("REPLACE", 2, 2, <<Ext(1, 1)>>) }

\* A partition with no operation, or with operations that have no extent,
\* followed by one that is sound.
InitDegenerate ==
    /\ \E ops \in SeqsUpTo(DegenerateCatalog, 0, MaxOps) :
          manifest = Manifest(0, 2,
              <<Partition("system", ops),
                Partition("vendor", <<Op("REPLACE", 0, 2, <<Ext(0, 1)>>)>>)>>)
    /\ src = Payload(GoodHdr(manifest), manifest)
    /\ partitions_name = <<>>
    /\ max_workers \in 1..MaxWorkers
    /\ entry = "extract" /\ partition = ""
    /\ files = EmptyDir
    /\ source = LocalFile
    /\ create_fails = {} /\ truncate_fails = {}

\* The environments beyond a local file and a sound output directory.
InitEnv ==
    /\ InitRun /\ ReadersIdle
    /\ \/ InitHeader /\ FaultFree
       \/ InitFault \/ InitSource \/ InitPool \/ InitDegenerate

\* ================================================ ExtractPartitionsFromPayload
\* Seek to 0, clear out_dir, parse; log.Fatalln on a parser error; else the
\* base offset, the selection and the pool.
ExtractPartitionsFromPayload_Begin ==
    /\ pc = "start" /\ entry = "extract"
    /\ LET r == InitPayloadInfo(source, src, ReaderSeekStart(source, src, 0),
                                manifest)
       IN /\ files' = EmptyDir
          /\ pos' = r.pos
          /\ err' = r.err
          /\ parsed' = r.manifest
          /\ IF r.err # "nil"
             THEN /\ pc' = "fatal"
                  /\ UNCHANGED <<baseoff, all_parts, idx, wg>>
             ELSE /\ pc' = "part"
                  /\ baseoff' = ReaderSeekCurrent(source, src, r.pos, 0)
                  /\ all_parts' = SelectParts(r.manifest, partitions_name)
                  /\ idx' = 1
                  /\ wg' = [i \in 1..Len(all_parts') |-> 0]
    /\ UNCHANGED <<inputs, operations, opi, curr_data_offset, data, fdOpen,
                   tasks, extracted, history, readers>>

\* The head of the loop over all_parts and of extractPartitionFromPayload:
\* re-seek to the base, size and create the output file, sort the operations.
extractPartitionFromPayload_Create ==
    /\ pc = "part" /\ idx <= Len(all_parts)
    /\ LET p == all_parts[idx]
           total_size == total_length(p, parsed.block_size)
           failed(e) == /\ logged' = Append(logged, [p |-> idx, err |-> e])
                        /\ idx' = idx + 1
                        /\ pc' = "part"
                        /\ UNCHANGED <<fdOpen, operations, curr_data_offset, opi>>
       IN /\ pos' = ReaderSeekStart(source, src, baseoff)
          /\ IF NilDereference(p)
             THEN \* the panic in the caller's goroutine ends the process
                  /\ pc' = "panic"
                  /\ UNCHANGED <<files, fdOpen, operations, curr_data_offset,
                                 opi, idx, logged, extracted>>
             ELSE
                  /\ extracted' = Append(extracted, p.partition_name)
                  /\ IF idx \in create_fails
                     THEN \* os.Create fails: the error goes back to the caller's log
                          /\ UNCHANGED files
                          /\ failed("create")
                     ELSE IF idx \in truncate_fails
                     THEN \* fd.Truncate fails: the deferred os.Remove and fd.Close
                          /\ files' = [n \in DOMAIN files \ {ImgPath(p)} |-> files[n]]
                          /\ failed("truncate")
                     ELSE /\ files' = [n \in DOMAIN files \cup {ImgPath(p)} |->
                                          IF n = ImgPath(p) THEN Zeros(total_size)
                                          ELSE files[n]]
                          /\ fdOpen' = fdOpen \cup {idx}
                          /\ operations' \in SortedByDataOffset(p.operations)
                          /\ curr_data_offset' = 0
                          /\ opi' = 1
                          /\ pc' = "read"
                          /\ UNCHANGED <<idx, logged>>
    /\ UNCHANGED <<inputs, err, parsed, baseoff, all_parts, data, wg, tasks,
                   finished, reads, readers>>

extractPartitionFromPayload_Read_StaleOffset ==
    /\ pc = "read"
    /\ LET operation == operations[opi]
           rel == operation.data_offset - curr_data_offset
           seeked == ReaderSeekCurrent(source, src, pos, rel)
           rd == ReaderRead(source, src, seeked, operation.data_length)
       IN /\ pos' = rd.pos
          /\ reads' = Append(reads, [p |-> idx, k |-> opi, at |-> seeked,
                                     rel |-> rel, operation |-> operation,
                                     err |-> rd.err, buf |-> rd.buf])
          /\ IF rd.err # "nil"
             THEN /\ fdOpen' = fdOpen \ {idx}
                  /\ logged' = Append(logged, [p |-> idx, err |-> rd.err])
                  /\ idx' = idx + 1
                  /\ pc' = "part"
                  /\ UNCHANGED <<data, curr_data_offset, wg>>
             ELSE /\ UNCHANGED logged
                  /\ data' = rd.buf
                  /\ curr_data_offset' = curr_data_offset
                  /\ wg' = [wg EXCEPT ![idx] = @ + 1]
                  /\ pc' = "submit"
                  /\ UNCHANGED <<fdOpen, idx>>
    /\ UNCHANGED <<inputs, err, parsed, baseoff, all_parts, operations, opi, files,
                   tasks, extracted, finished, readers>>

extractPartitionFromPayload_Read_AbortRun ==
    /\ pc = "read"
    /\ LET operation == operations[opi]
           rel == operation.data_offset - curr_data_offset
           seeked == ReaderSeekCurrent(source, src, pos, rel)
           rd == ReaderRead(source, src, seeked, operation.data_length)
       IN /\ pos' = rd.pos
          /\ reads' = Append(reads, [p |-> idx, k |-> opi, at |-> seeked,
                                     rel |-> rel, operation |-> operation,
                                     err |-> rd.err, buf |-> rd.buf])
          /\ IF rd.err # "nil"
             THEN /\ fdOpen' = fdOpen \ {idx}
                  /\ logged' = Append(logged, [p |-> idx, err |-> rd.err])
                  /\ idx' = Len(all_parts) + 1
                  /\ pc' = "part"
                  /\ UNCHANGED <<data, curr_data_offset, wg>>
             ELSE /\ UNCHANGED logged
                  /\ data' = rd.buf
                  /\ curr_data_offset' = operation.data_offset + operation.data_length
                  /\ wg' = [wg EXCEPT ![idx] = @ + 1]
                  /\ pc' = "submit"
                  /\ UNCHANGED <<fdOpen, idx>>
    /\ UNCHANGED <<inputs, err, parsed, baseoff, all_parts, operations, opi, files,
                   tasks, extracted, finished, readers>>

\* One turn of the loop over the operations up to wg.Add(1): the relative
\* seek and the single Read.  A read error returns from
\* extractPartitionFromPayload (the deferred fd.Close runs, nothing waits for
\* the workers) and the caller logs it and goes on to the next partition.
extractPartitionFromPayload_Read ==
    /\ pc = "read"
    /\ LET operation == operations[opi]
           rel == operation.data_offset - curr_data_offset
           seeked == ReaderSeekCurrent(source, src, pos, rel)
           rd == ReaderRead(source, src, seeked, operation.data_length)
       IN /\ pos' = rd.pos
          /\ reads' = Append(reads, [p |-> idx, k |-> opi, at |-> seeked,
                                     rel |-> rel, operation |-> operation,
                                     err |-> rd.err, buf |-> rd.buf])
          /\ IF rd.err # "nil"
             THEN /\ fdOpen' = fdOpen \ {idx}
                  /\ logged' = Append(logged, [p |-> idx, err |-> rd.err])
                  /\ idx' = idx + 1
                  /\ pc' = "part"
                  /\ UNCHANGED <<data, curr_data_offset, wg>>
             ELSE /\ UNCHANGED logged
                  /\ data' = rd.buf
                  /\ curr_data_offset' = operation.data_offset + operation.data_length
                  /\ wg' = [wg EXCEPT ![idx] = @ + 1]
                  /\ pc' = "submit"
                  /\ UNCHANGED <<fdOpen, idx>>
    /\ UNCHANGED <<inputs, err, parsed, baseoff, all_parts, operations, opi, files,
                   tasks, extracted, finished, readers>>

\* ants.NewPool(size): a size that is not positive makes a pool without a
\* limit (capacity -1).
PoolCap(size) == IF size <= 0 THEN -1 ELSE size

\* pool.Submit: blocks while the pool's capacity of tasks is running.
extractPartitionFromPayload_Submit ==
    /\ pc = "submit"
    /\ PoolCap(max_workers) = -1 \/ Cardinality(tasks) < PoolCap(max_workers)
    /\ tasks' = tasks \cup
          {[p |-> idx, k |-> opi, operation |-> operations[opi], data |-> data,
            ext |-> 1, total_write |-> 0, write_len |-> 0, wrote |-> {}]}
    /\ opi' = opi + 1
    /\ pc' = IF opi < Len(operations) THEN "read" ELSE "wait"
    /\ UNCHANGED <<inputs, pos, err, parsed, baseoff, all_parts, idx, operations,
                   curr_data_offset, data, files, fdOpen, wg, extracted,
                   history, readers>>

extractPartitionFromPayload_Wait_NoBarrier ==
    /\ pc = "wait"
    /\ fdOpen' = fdOpen \ {idx}
    /\ idx' = idx + 1
    /\ pc' = "part"
    /\ UNCHANGED <<inputs, pos, err, parsed, baseoff, all_parts, operations, opi,
                   curr_data_offset, data, files, wg, tasks, extracted,
                   history, readers>>

\* wg.Wait, the return and the deferred fd.Close; the caller's bar.Finish.
extractPartitionFromPayload_Wait ==
    /\ pc = "wait"
    /\ wg[idx] = 0
    /\ fdOpen' = fdOpen \ {idx}
    /\ idx' = idx + 1
    /\ pc' = "part"
    /\ UNCHANGED <<inputs, pos, err, parsed, baseoff, all_parts, operations, opi,
                   curr_data_offset, data, files, wg, tasks, extracted,
                   history, readers>>

\* The loop is over: "Done!", pool.Release, and the process ends.
ExtractPartitionsFromPayload_Done ==
    /\ pc = "part" /\ idx > Len(all_parts)
    /\ pc' = "done"
    /\ UNCHANGED <<inputs, pos, err, parsed, baseoff, all_parts, idx, operations, opi,
                   curr_data_offset, data, files, fdOpen, wg, tasks, extracted,
                   history, readers>>

\* ======================================================= extractOperationToFile
\* The file offsets (counted from 1) of n bytes written at offset off.
Span(off, n) == (off + 1)..(off + n)

\* A task is over: the deferred wg.Done, the error the task returned (the
\* submitted closure logs it when it is not nil), what it handed to
\* progress_bar.Add (nothing on an error return) and the offsets it wrote.
Finished(t, e, write_len, wrote) ==
    /\ tasks' = tasks \ {t}
    /\ wg' = [wg EXCEPT ![t.p] = @ - 1]
    /\ finished' = finished \cup
          {[p |-> t.p, k |-> t.k, err |-> e, operation |-> t.operation,
            write_len |-> write_len, wrote |-> wrote]}

\* The switch on operation.Type with no default case: any other type is
\* handled as a REPLACE.
Handler_NoDefault(type) ==
    CASE type = "ZERO" -> "zero"
      [] type \in {"REPLACE_BZ", "REPLACE_XZ"} -> "codec"
      [] OTHER -> "replace"

\* The switch on operation.Type: the case taken.
Handler(type) ==
    CASE type = "REPLACE" -> "replace"
      [] type = "ZERO" -> "zero"
      [] type \in {"REPLACE_BZ", "REPLACE_XZ"} -> "codec"
      [] OTHER -> "default"

\* One step of a pool worker on task t: the next WriteAt of the operation's
\* handler, or its return.  A WriteAt on a closed file is an error.
extractOperationToFile(t) ==
    /\ t \in tasks
    /\ pc \notin {"start", "fatal", "done", "panic"}
    /\ LET path == ImgPath(all_parts[t.p])
           open == t.p \in fdOpen
           block_size == parsed.block_size
           put(d, off) == files' = [files EXCEPT ![path] = WriteAt(@, d, off)]
       IN IF t.operation.dst_extents = <<>>
          THEN \* GetDstExtents()[0] panics in the submitted closure before
               \* extractOperationToFile is called: no deferred wg.Done; the
               \* pool's worker recovers and the task is gone
               /\ tasks' = tasks \ {t}
               /\ UNCHANGED <<files, wg, finished>>
          ELSE
          CASE Handler(t.operation.type) = "replace" ->
                 LET off == out_offset(t.operation, block_size)
                 IN IF open
                    THEN /\ put(t.data, off)
                         /\ Finished(t, "nil", Len(t.data), Span(off, Len(t.data)))
                    ELSE /\ UNCHANGED files
                         /\ Finished(t, "file already closed", 0, {})
            [] Handler(t.operation.type) = "zero" ->
                 LET e == t.operation.dst_extents[t.ext]
                     out_seek == e.start_block * block_size
                     size == e.num_blocks
                     n == write_zero_chunk(size, t.total_write)
                     more == t.total_write + n < size
                     wrote == t.wrote \cup Span(t.total_write + out_seek, n)
                 IN IF ~open
                    THEN /\ UNCHANGED files
                         /\ Finished(t, "file already closed", 0, t.wrote)
                    ELSE /\ put(Zeros(n), t.total_write + out_seek)
                         /\ IF more
                            THEN /\ tasks' = (tasks \ {t}) \cup
                                       {[t EXCEPT !.total_write = @ + n,
                                                  !.write_len = @ + n,
                                                  !.wrote = wrote]}
                                 /\ UNCHANGED <<wg, finished>>
                            ELSE IF t.ext < Len(t.operation.dst_extents)
                            THEN /\ tasks' = (tasks \ {t}) \cup
                                       {[t EXCEPT !.ext = @ + 1, !.total_write = 0,
                                                  !.write_len = @ + n,
                                                  !.wrote = wrote]}
                                 /\ UNCHANGED <<wg, finished>>
                            ELSE Finished(t, "nil", t.write_len + n, wrote)
            [] Handler(t.operation.type) = "codec" ->
                 LET z == Decompress(t.data)
                     off == out_offset(t.operation, block_size)
                 IN IF open
                    THEN /\ put(z.out, off)
                         /\ Finished(t, z.err,
                                     IF z.err = "nil" THEN Len(z.out) ELSE 0,
                                     Span(off, Len(z.out)))
                    ELSE /\ UNCHANGED files
                         /\ Finished(t, IF z.out = <<>> THEN z.err
                                        ELSE "file already closed", 0, {})
            [] OTHER ->
                 UNCHANGED files /\ Finished(t, "unexpcted data type", 0, {})
    /\ UNCHANGED <<inputs, dispatcher, fdOpen, logged, reads, readers>>

\* ====================================================== ExtractBootFromPayload
\* io.CopyN(io.Discard, reader, n) on the file: nothing for n <= 0.
CopyNDiscard(s, p, n) == IF n <= 0 THEN p ELSE p + Min(n, Max(Len(s) - p, 0))

\* The partition function of doExtractBootFromPayload: the partition chosen,
\* or a log.Fatalln.  name = "" is the nil partition_name.
BootPartition(m, name) ==
    LET named(n) == {i \in 1..Len(m.partitions) : m.partitions[i].partition_name = n}
        first(n) == m.partitions[CHOOSE i \in named(n) : \A j \in named(n) : i <= j]
    IN IF name = ""
       THEN IF named("init_boot") # {} \/ named("boot") # {}
            THEN [fatal |-> TRUE, found |-> FALSE]
            ELSE [fatal |-> FALSE, found |-> FALSE]
       ELSE IF named(name) # {}
            THEN [fatal |-> FALSE, found |-> TRUE, p |-> first(name)]
            ELSE [fatal |-> TRUE, found |-> FALSE]

\* The loop over the sorted operations, from operation i on.  st holds the
\* reader's cursor, curr_data_offset, the output file and the outcome so far.
RECURSIVE BootOperations(_, _, _, _, _)
BootOperations(s, ops, i, block_size, st) ==
    IF i > Len(ops) \/ st.err # "nil" THEN st
    ELSE
    LET operation == ops[i]
        skipped == CopyNDiscard(s, st.pos, operation.data_offset - st.curr)
        rd == FileRead(s, skipped, operation.data_length)
        off == out_offset(operation, block_size)
        z == Decompress(rd.buf)
        zeroed[k \in 0..Len(operation.dst_extents)] ==
            IF k = 0 THEN st.file
            ELSE WriteAt(zeroed[k - 1],
                         Zeros(operation.dst_extents[k].num_blocks),
                         operation.dst_extents[k].start_block * block_size)
        next == [st EXCEPT !.pos = rd.pos,
                           !.curr = operation.data_offset + operation.data_length]
    IN CASE operation.type = "REPLACE" ->
              BootOperations(s, ops, i + 1, block_size,
                             [next EXCEPT !.file = WriteAt(@, rd.buf, off)])
         [] operation.type = "ZERO" ->
              BootOperations(s, ops, i + 1, block_size,
                  [next EXCEPT !.file = zeroed[Len(operation.dst_extents)]])
         [] operation.type = "REPLACE_BZ" ->
              BootOperations(s, ops, i + 1, block_size,
                             [next EXCEPT !.file = WriteAt(@, z.out, off)])
         [] operation.type = "REPLACE_XZ" ->
              IF z.err # "nil" /\ z.out = <<>>
              THEN [next EXCEPT !.err = "xz", !.fatal = TRUE]
              ELSE BootOperations(s, ops, i + 1, block_size,
                                  [next EXCEPT !.file = WriteAt(@, z.out, off)])
         [] OTHER -> [next EXCEPT !.err = "unsupported operation type"]

\* doExtractBootFromPayload on the file s encoding m, whole: the error it
\* returns ("nil": success), whether it ended in log.Fatalln, the cursor and
\* the out_dir it leaves.
doExtractBootFromPayload(s, m, name, dir) ==
    LET rd == ReadFull(s, 0, HdrSize)
        hdr == DecodeHdr(rd.buf)
        out(e, f, q, d) == [err |-> e, fatal |-> f, pos |-> q, files |-> d]
    IN  IF rd.err # "nil" THEN out(rd.err, FALSE, rd.pos, dir)
        ELSE IF hdr.Magic # PAYLOAD_MAGIC THEN out("invalid magic", FALSE, rd.pos, dir)
        ELSE IF hdr.Version # 2 THEN out("unsupported version", FALSE, rd.pos, dir)
        ELSE IF hdr.ManifestLen = 0
             THEN out("manifest length is zero", FALSE, rd.pos, dir)
        ELSE IF hdr.ManifestSigLen = 0
             THEN out("manifest signature length is zero", FALSE, rd.pos, dir)
        ELSE
        LET mr == FileRead(s, rd.pos, hdr.ManifestLen)
            um == Unmarshal(mr.buf, m)
        IN  IF um.err # "nil" THEN out(um.err, FALSE, mr.pos, dir)
            ELSE IF um.manifest.minor_version # 0
                 THEN out("delta payloads are not supported", FALSE, mr.pos, dir)
            ELSE
            LET sel == BootPartition(um.manifest, name)
                ops == IF sel.found THEN sel.p.operations ELSE <<>>
                path == IF sel.found THEN ImgPath(sel.p) ELSE ".img"
                start == CopyNDiscard(s, mr.pos, hdr.ManifestSigLen)
            IN  IF sel.fatal THEN out("partition not found", TRUE, mr.pos, dir)
                ELSE
                LET sorted == CHOOSE o \in SortedByDataOffset(ops) : TRUE
                    st == BootOperations(s, sorted, 1, um.manifest.block_size,
                              [pos |-> start, curr |-> 0, file |-> <<>>,
                               err |-> "nil", fatal |-> FALSE])
                IN out(st.err, st.fatal, st.pos,
                       [n \in DOMAIN dir \cup {path} |->
                           IF n = path THEN st.file ELSE dir[n]])

ExtractBootFromPayload ==
    /\ pc = "start" /\ entry = "boot"
    /\ LET r == doExtractBootFromPayload(src, manifest, partition, files)
       IN /\ err' = r.err
          /\ pos' = r.pos
          /\ files' = r.files
          /\ pc' = IF r.fatal THEN "fatal" ELSE "done"
    /\ UNCHANGED <<inputs, parsed, baseoff, all_parts, idx, operations, opi,
                   curr_data_offset, data, fdOpen, wg, tasks, extracted,
                   history, readers>>

Next ==
    \/ ExtractPartitionsFromPayload_Begin
    \/ extractPartitionFromPayload_Create
    \/ extractPartitionFromPayload_Read
    \/ extractPartitionFromPayload_Submit
    \/ extractPartitionFromPayload_Wait
    \/ ExtractPartitionsFromPayload_Done
    \/ \E t \in tasks : extractOperationToFile(t)
    \/ ExtractBootFromPayload

Spec == Init /\ [][Next]_vars

\* The same program in the other environments.
SpecEnv == InitEnv /\ [][Next]_vars


\* ====================================================== the ZIP readers
MaxEntries == 3      \* entries per archive
MaxRead == 3         \* largest buffer handed to a reader's Read

MaxCallers == 2      \* goroutines calling into one ZipPayloadReader

Callers == 1..MaxCallers

\* Entry names, as lists of pieces of text.
PayloadBin == <<"payload", ".bin">>
EntryNames ==
    { PayloadBin, <<"dir/", "payload", ".bin">>, <<"payload", ".bin", ".sig">> }

\* strings.HasSuffix
HasSuffix(name, suffix) ==
    /\ Len(name) >= Len(suffix)
    /\ SubSeq(name, Len(name) - Len(suffix) + 1, Len(name)) = suffix

\* The i-th entry of an archive of the inputs: its own bytes.
Entry(i, name, method) ==
    [name |-> name, method |-> method,
     data |-> <<10 * i + 1, 10 * i + 2, 10 * i + 3, 10 * i + 4>>]

\* The archive file: a local header before each entry's data, the central
\* directory last.  Its size, and where entry i's data starts (DataOffset).
RECURSIVE DataOffset(_, _)
DataOffset(a, i) ==
    IF i = 1 THEN 1 ELSE DataOffset(a, i - 1) + Len(a[i - 1].data) + 1
ArchiveSize(a) ==
    IF Len(a) = 0 THEN 1 ELSE DataOffset(a, Len(a)) + Len(a[Len(a)].data) + 1

\* The loop over zreader.File without its break: the last match wins.
RECURSIVE ScanEntries_NoBreak(_, _)
ScanEntries_NoBreak(a, i) ==
    IF i > Len(a) THEN 0
    ELSE LET rest == ScanEntries_NoBreak(a, i + 1)
         IN IF rest # 0 THEN rest
            ELSE IF HasSuffix(a[i].name, PayloadBin) THEN i ELSE 0

\* The loop over zreader.File from entry i on: the index of the entry taken
\* (the first one whose name ends with payload.bin), 0 for nil.
RECURSIVE ScanEntries(_, _)
ScanEntries(a, i) ==
    IF i > Len(a) THEN 0
    ELSE IF HasSuffix(a[i].name, PayloadBin) THEN i
    ELSE ScanEntries(a, i + 1)

\* NewZipFileSeekReader(reader, size)
NewZipFileSeekReader(a) ==
    LET zfile == ScanEntries(a, 1)
    IN IF zfile = 0
       THEN [state |-> "error", err |-> "could not found payload.bin in zip archive"]
       ELSE [state |-> "ready", zfile |-> zfile, pos |-> 0, total |-> ArchiveSize(a),
             lastpos |-> 0, stream |-> -1, opens |-> 0]

\* NewZipPayloadReader(reader, size)
NewZipPayloadReader(a) ==
    LET zf == ScanEntries(a, 1)
    IN IF zf = 0
       THEN [state |-> "error", err |-> "could not found payload.bin in zip file"]
       ELSE [state |-> "ready", zf |-> zf, dataoff |-> DataOffset(a, zf),
             pos |-> 0, stream |-> "nil", at |-> 0, streamStart |-> 0,
             streamOffset |-> 0, opens |-> 0, mu |-> 0,
             calls |-> [c \in Callers |-> "idle"]]

\* io.CopyN(io.Discard, stream, n) on a stream at byte st of the data d
Discard(d, st, n) == IF n <= 0 THEN st ELSE Min(st + n, Len(d))

\* What one Read of an entry's stream may return for a buffer of n bytes with
\* the stream at byte st: all the bytes left up to n for a stored entry, any
\* positive part of them for a deflated one, nothing at the end.
StreamCounts(e, st, n) ==
    LET most == Min(n, Len(e.data) - st)
    IN IF most <= 0 THEN {0}
       ELSE IF e.method = "store" THEN {most} ELSE 1..most

\* ZipFileSeekReader.Seek(offset, whence)
ZipFileSeekReader_Seek(z, offset, whence) ==
    LET moved == CASE whence = "SeekStart" -> offset
                   [] whence = "SeekCurrent" -> z.pos + offset
                   [] whence = "SeekEnd" -> z.total
    IN [z EXCEPT !.pos = Min(moved, z.total - 1)]

\* ZipFileSeekReader.Read without the re-open for a cursor before lastpos.
ZipFileSeekReader_Read_NoReopen(z, e, n, c) ==
    LET opened == IF z.stream = -1 THEN 0 ELSE z.stream
        skipped == IF z.pos > z.lastpos
                   THEN Discard(e.data, opened, z.pos - z.lastpos)
                   ELSE opened
    IN IF z.pos < 0
       THEN [z |-> [z EXCEPT !.stream = opened,
                            !.opens = @ + (IF z.stream = -1 THEN 1 ELSE 0)],
             n |-> -1,
             err |-> "pos is less than 0", data |-> <<>>, ok |-> c = 0,
             path |-> "none"]
       ELSE [z |-> [z EXCEPT !.stream = skipped + c, !.pos = z.pos + c,
                             !.lastpos = z.pos + c,
                             !.opens = @ + (IF z.stream = -1 THEN 1 ELSE 0)],
             n |-> c, err |-> "nil",
             data |-> IF c \in StreamCounts(e, skipped, n)
                      THEN SubSeq(e.data, skipped + 1, skipped + c) ELSE <<>>,
             ok |-> c \in StreamCounts(e, skipped, n),
             path |-> IF z.pos < z.lastpos THEN "reopen"
                      ELSE IF z.pos > z.lastpos THEN "skip" ELSE "continue"]

\* ZipFileSeekReader.Read(data) with len(data) = n on the entry e, the
\* stream's Read returning c bytes: the reader left, the count and error
\* returned, the bytes put into data; ok tells whether the stream can return
\* c bytes there.
ZipFileSeekReader_Read(z, e, n, c) ==
    LET opened == IF z.stream = -1 THEN 0 ELSE z.stream
        reopened == IF z.pos < z.lastpos THEN Discard(e.data, 0, z.pos)
                    ELSE opened
        skipped == IF z.pos > z.lastpos
                   THEN Discard(e.data, reopened, z.pos - z.lastpos)
                   ELSE reopened
    IN IF z.pos < 0
       THEN [z |-> [z EXCEPT !.stream = opened,
                            !.opens = @ + (IF z.stream = -1 THEN 1 ELSE 0)],
             n |-> -1,
             err |-> "pos is less than 0", data |-> <<>>, ok |-> c = 0,
             path |-> "none"]
       ELSE [z |-> [z EXCEPT !.stream = skipped + c, !.pos = z.pos + c,
                             !.lastpos = z.pos + c,
                             !.opens = @ + (IF z.stream = -1 THEN 1 ELSE 0)],
             n |-> c, err |-> "nil",
             data |-> IF c \in StreamCounts(e, skipped, n)
                      THEN SubSeq(e.data, skipped + 1, skipped + c) ELSE <<>>,
             ok |-> c \in StreamCounts(e, skipped, n),
             path |-> IF z.pos < z.lastpos THEN "reopen"
                      ELSE IF z.pos > z.lastpos THEN "skip" ELSE "continue"]

\* ------------------------------------------------ calls on the ZIP readers
\* What a call on a reader leaves alone: everything of the extraction.
extraction == <<inputs, dispatcher, files, fdOpen, wg, tasks, history>>

Methods == {"store", "deflate"}
Whences == {"SeekStart", "SeekCurrent", "SeekEnd"}
SeekOffsets == {-1, 0, 1, 2, 8}

\* Archives of up to MaxEntries entries, one compression method throughout.
InitZip ==
    /\ entry = "NewZipFileSeekReader"
    /\ \E names \in SeqsUpTo(EntryNames, 0, MaxEntries), method \in Methods :
          archive = [i \in 1..Len(names) |-> Entry(i, names[i], method)]
    /\ zfr = NoReader /\ zpr = NoReader
    /\ server = NoReader /\ rrs = NoReader /\ ret = NoReader

NewZipFileSeekReader_Call ==
    /\ entry = "NewZipFileSeekReader" /\ zfr = NoReader
    /\ zfr' = NewZipFileSeekReader(archive)
    /\ ret' = [op |-> "NewZipFileSeekReader"]
    /\ UNCHANGED <<archive, zpr, server, rrs>>
    /\ UNCHANGED extraction

NewZipPayloadReader_Call ==
    /\ entry \in {"NewZipFileSeekReader", "NewZipPayloadReader"} /\ zpr = NoReader
    /\ zpr' = NewZipPayloadReader(archive)
    /\ ret' = [op |-> "NewZipPayloadReader"]
    /\ UNCHANGED <<archive, zfr, server, rrs>>
    /\ UNCHANGED extraction

ZipFileSeekReader_Seek_Call ==
    /\ zfr # NoReader /\ zfr.state = "ready"
    /\ \E offset \in SeekOffsets, whence \in Whences :
          /\ zfr' = ZipFileSeekReader_Seek(zfr, offset, whence)
          /\ zfr'.pos >= -1
          /\ zfr'.pos <= Len(archive[zfr.zfile].data) + 1
          /\ ret' = [op |-> "Seek", n |-> zfr'.pos, err |-> "nil"]
    /\ UNCHANGED <<archive, zpr, server, rrs>>
    /\ UNCHANGED extraction

ZipFileSeekReader_Read_Call ==
    /\ zfr # NoReader /\ zfr.state = "ready"
    /\ \E n \in 0..MaxRead, c \in 0..MaxRead :
          LET r == ZipFileSeekReader_Read(zfr, archive[zfr.zfile], n, c)
          IN /\ r.ok
             /\ zfr' = r.z
             /\ ret' = [op |-> "Read", at |-> zfr.pos, len |-> n, n |-> r.n,
                        err |-> r.err, data |-> r.data, path |-> r.path]
    /\ UNCHANGED <<archive, zpr, server, rrs>>
    /\ UNCHANGED extraction

\* ------------------------------------------------- the ZipPayloadReader
\* The bytes of the archive file: a local header before each entry's data,
\* the central directory last.
RECURSIVE ArchiveBytes(_, _)
ArchiveBytes(a, i) ==
    IF i > Len(a) THEN <<75>>
    ELSE <<80>> \o a[i].data \o ArchiveBytes(a, i + 1)

\* r.or.ReadAt(p, o) on the archive file, len(p) = n: all n bytes, or an
\* error with the bytes there are.
OriginReadAt(a, n, o) ==
    LET f == ArchiveBytes(a, 1)
    IN IF o < 0 THEN [n |-> 0, err |-> "negative offset", data |-> <<>>]
       ELSE IF o + n <= Len(f)
       THEN [n |-> n, err |-> "nil", data |-> SubSeq(f, o + 1, o + n)]
       ELSE [n |-> Max(Len(f) - o, 0), err |-> "EOF",
             data |-> SubSeq(f, o + 1, Len(f))]

\* The test of the deflate branch: a stream is there and it stands at off.
StreamContinues(z, off) ==
    z.stream # "nil" /\ z.streamStart + z.streamOffset = off

\* The deflate branch of ReadAt re-opening without closing the stream it has.
Reopen_NoClose(z, e, off) ==
    [z EXCEPT !.stream = "open", !.at = Discard(e.data, 0, off),
              !.streamStart = off, !.streamOffset = 0, !.opens = @ + 1]

\* The deflate branch of ReadAt when the stream does not continue: close the
\* stream there is, open the entry anew, discard off bytes.
Reopen(z, e, off) ==
    [z EXCEPT !.stream = "open", !.at = Discard(e.data, 0, off),
              !.streamStart = off, !.streamOffset = 0,
              !.opens = @ - (IF z.stream = "open" THEN 1 ELSE 0) + 1]

\* ZipPayloadReader.ReadAt(p, off) with len(p) = n on the entry e of the
\* archive a; Read is the same code with off = r.pos.  The stream's Read
\* returns c bytes, together with io.EOF when eof (which a deflate stream may
\* do with the last bytes of the entry): ok tells whether the stream can do
\* that.  opened tells whether zf.Open was called.
ZipPayloadReader_ReadAt(z, a, n, off, c, eof) ==
    LET e == a[z.zf]
    IN IF e.method = "store"
       THEN LET rd == OriginReadAt(a, n, z.dataoff + off)
            IN IF rd.err # "nil"
               THEN [z |-> z, n |-> 0, err |-> rd.err, data |-> <<>>,
                     ok |-> c = 0 /\ ~eof, opened |-> FALSE]
               ELSE [z |-> [z EXCEPT !.pos = @ + rd.n], n |-> rd.n,
                     err |-> "nil", data |-> rd.data,
                     ok |-> c = 0 /\ ~eof, opened |-> FALSE]
       ELSE LET cont == StreamContinues(z, off)
                s == IF cont THEN z ELSE Reopen(z, e, off)
                left == Len(e.data) - s.at
            IN IF s.stream = "closed"
               THEN [z |-> s, n |-> 0, err |-> "Read after Close", data |-> <<>>,
                     ok |-> c = 0 /\ ~eof, opened |-> ~cont]
               ELSE IF n > 0 /\ left = 0
               THEN [z |-> s, n |-> 0, err |-> "EOF", data |-> <<>>,
                     ok |-> c = 0 /\ eof, opened |-> ~cont]
               ELSE IF eof
               THEN [z |-> [s EXCEPT !.at = @ + c], n |-> 0, err |-> "EOF",
                     data |-> <<>>, ok |-> c > 0 /\ c = left /\ c <= n,
                     opened |-> ~cont]
               ELSE [z |-> [s EXCEPT !.at = @ + c, !.streamOffset = @ + c,
                                     !.pos = @ + c],
                     n |-> c, err |-> "nil",
                     data |-> IF c <= left THEN SubSeq(e.data, s.at + 1, s.at + c)
                              ELSE <<>>,
                     ok |-> IF n = 0 THEN c = 0 ELSE c \in 1..Min(n, left),
                     opened |-> ~cont]

\* ZipPayloadReader.Seek(off, whence) on the entry e
ZipPayloadReader_SeekWhence(z, e, off, whence) ==
    LET moved == CASE whence = "SeekStart" -> off
                   [] whence = "SeekCurrent" -> z.pos + off
                   [] whence = "SeekEnd" -> Len(e.data) + off
    IN [z EXCEPT !.pos = ZipPayloadReader_Seek(e.data, moved)]

\* ZipPayloadReader.Close()
ZipPayloadReader_Close(z) ==
    IF z.stream = "nil" THEN z
    ELSE [z EXCEPT !.stream = "closed",
                   !.opens = @ - (IF z.stream = "open" THEN 1 ELSE 0)]

\* Archives for the calls on a ZipPayloadReader: payload.bin alone or after
\* another entry, stored or deflated.
InitZipPayload ==
    /\ entry = "NewZipPayloadReader"
    /\ \E names \in {<<PayloadBin>>, <<<<"payload", ".bin", ".sig">>, PayloadBin>>},
          method \in Methods :
          archive = [i \in 1..Len(names) |-> Entry(i, names[i], method)]
    /\ zfr = NoReader /\ zpr = NoReader
    /\ server = NoReader /\ rrs = NoReader /\ ret = NoReader

\* The methods that take r.mu.
Locking == {"ReadAt", "Close"}
Methods_ZipPayloadReader == {"ReadAt", "Read", "Seek", "Close"}

\* Caller c enters a method: one that locks waits for r.mu.  When another
\* caller is inside, the two run their accesses to the reader's fields at the
\* same time without a common lock: what the fields hold from then on is
\* not defined, and the model follows the reader no further; zf and dataoff,
\* which no method writes, stay.
ZipPayloadReader_Enter(c) ==
    /\ entry = "NewZipPayloadReader"
    /\ zpr # NoReader /\ zpr.state = "ready"
    /\ zpr.calls[c] = "idle"
    /\ \A d \in Callers : d < c => zpr.calls[d] # "idle"
    /\ \E m \in Methods_ZipPayloadReader :
          /\ m \in Locking => zpr.mu = 0
          /\ zpr' = IF \E d \in Callers \ {c} : zpr.calls[d] # "idle"
                    THEN [state |-> "raced", zf |-> zpr.zf,
                          dataoff |-> zpr.dataoff,
                          calls |-> [zpr.calls EXCEPT ![c] = m]]
                    ELSE [zpr EXCEPT !.calls[c] = m,
                                     !.mu = IF m \in Locking THEN c ELSE @]
    /\ ret' = [op |-> "pending"]
    /\ UNCHANGED <<archive, zfr, server, rrs>>
    /\ UNCHANGED extraction

\* What caller c is given back, and r.mu released by the deferred Unlock.
Leave(z, c) ==
    [z EXCEPT !.calls[c] = "idle", !.mu = IF @ = c THEN 0 ELSE @]

ZipPayloadReader_ReadAt_Call(c) ==
    /\ zpr # NoReader /\ zpr.state = "ready"
    /\ zpr.calls[c] \in {"ReadAt", "Read"}
    /\ \E n \in 0..MaxRead, k \in 0..MaxRead, eof \in BOOLEAN,
          o \in 0..(Len(archive[zpr.zf].data) + 1) :
          LET off == IF zpr.calls[c] = "Read" THEN zpr.pos ELSE o
              r == ZipPayloadReader_ReadAt(zpr, archive, n, off, k, eof)
          IN /\ zpr.calls[c] = "Read" => o = 0
             /\ r.ok
             /\ r.z.pos <= Len(archive[zpr.zf].data) + 1
             /\ zpr' = Leave(r.z, c)
             /\ ret' = [op |-> zpr.calls[c], off |-> off, len |-> n, n |-> r.n,
                        err |-> r.err, data |-> r.data, opened |-> r.opened,
                        before |-> [stream |-> zpr.stream,
                                    expected |-> zpr.streamStart + zpr.streamOffset]]
    /\ UNCHANGED <<archive, zfr, server, rrs>>
    /\ UNCHANGED extraction

ZipPayloadReader_Seek_Call(c) ==
    /\ zpr # NoReader /\ zpr.state = "ready"
    /\ zpr.calls[c] = "Seek"
    /\ \E offset \in SeekOffsets, whence \in Whences :
          LET z == ZipPayloadReader_SeekWhence(zpr, archive[zpr.zf], offset, whence)
          IN /\ z.pos >= -1
             /\ zpr' = Leave(z, c)
             /\ ret' = [op |-> "Seek", n |-> z.pos, err |-> "nil"]
    /\ UNCHANGED <<archive, zfr, server, rrs>>
    /\ UNCHANGED extraction

ZipPayloadReader_Close_Call(c) ==
    /\ zpr # NoReader /\ zpr.state = "ready"
    /\ zpr.calls[c] = "Close"
    /\ zpr' = Leave(ZipPayloadReader_Close(zpr), c)
    /\ ret' = [op |-> "Close", err |-> "nil"]
    /\ UNCHANGED <<archive, zfr, server, rrs>>
    /\ UNCHANGED extraction

\* ================================================== the HTTP range reader
DefaultChunkSize == 4        \* 1 MB, scaled with the other byte sizes

\* A header value: absent, a number, or text that is no number.
NoHeader == [kind |-> "none"]
Number(v) == [kind |-> "num", v |-> v]
Text(t) == [kind |-> "text", t |-> t]

\* A reader that could not be initialised keeps the error.
Failed(r, e) == [r EXCEPT !.initialError = e]

\* tryInitialRangeRequest accepting a 200 OK that states a Content-Length.
tryInitialRangeRequest_Accept200(r, srv) ==
    LET resp == srv.first
    IN IF resp.status = 0 THEN Failed(r, "initial range GET failed")
       ELSE IF resp.status # 206
       THEN IF resp.status = 200 /\ resp.length.kind = "num" /\ resp.length.v > 0
            THEN [r EXCEPT !.size = resp.length.v]
            ELSE Failed(r, "status is not 206 Partial Content")
       ELSE IF resp.range.kind = "none" THEN Failed(r, "Content-Range missing")
       ELSE IF resp.range.kind # "num" \/ resp.range.v <= 0
       THEN Failed(r, "no total size in Content-Range")
       ELSE [r EXCEPT !.size = resp.range.v]

\* tryInitialRangeRequest: GET with Range: bytes=0-0.  resp.range is the
\* TOTAL of "Content-Range: bytes A-B/TOTAL": a number, the text "*", other
\* text, or no header at all.
tryInitialRangeRequest(r, srv) ==
    LET resp == srv.first
    IN IF resp.status = 0 THEN Failed(r, "initial range GET failed")
       ELSE IF resp.status # 206
       THEN IF resp.status = 200 /\ resp.length.kind = "num" /\ resp.length.v > 0
            THEN Failed([r EXCEPT !.size = resp.length.v],
                        "200 instead of 206 Partial Content")
            ELSE Failed(r, "status is not 206 Partial Content")
       ELSE IF resp.range.kind = "none" THEN Failed(r, "Content-Range missing")
       ELSE IF resp.range.kind # "num" \/ resp.range.v <= 0
       THEN IF resp.range.kind = "text" /\ resp.range.t = "*"
            THEN Failed(r, "total size unknown")
            ELSE Failed(r, "no total size in Content-Range")
       ELSE [r EXCEPT !.size = resp.range.v]

\* NewRangeReadSeeker(url, customChunkSize, client)
NewRangeReadSeeker(srv) ==
    LET r == [size |-> 0,
              chunkSize |-> IF srv.chunk <= 0 THEN DefaultChunkSize ELSE srv.chunk,
              currentOffset |-> 0, cache |-> <<>>, initialError |-> "nil",
              locked |-> FALSE, ranged |-> FALSE, gets |-> {}]
        viaRange == tryInitialRangeRequest([r EXCEPT !.ranged = TRUE], srv)
        resp == srv.head
    IN IF resp.status = 0 THEN viaRange
       ELSE IF resp.status \notin {200, 202, 204} THEN viaRange
       ELSE IF resp.length.kind = "none" THEN viaRange
       ELSE IF resp.length.kind = "text" THEN Failed(r, "Content-Length unparsable")
       ELSE IF resp.length.v <= 0 THEN viaRange
       ELSE [r EXCEPT !.size = resp.length.v]

\* The chunk of cursor cur, read from the cursor itself (no alignment).
ChunkStartOf_Unaligned(cur, chunkSize) == cur

\* chunkStartOffset of Read
ChunkStartOf(cur, chunkSize) == (cur \div chunkSize) * chunkSize

\* How the server answers the range GET for the chunk at chunkStartOffset: it
\* honors the ranges that start below srv.from and answers as srv.range says
\* from there on.
Answer(srv, chunkStartOffset) ==
    IF chunkStartOffset >= srv.from THEN srv.range ELSE "honor"

\* The status check of fetchAndCacheChunk letting every status pass.
IsPartialContent_Always(answer) == TRUE

\* resp.StatusCode == http.StatusPartialContent
IsPartialContent(answer) == answer # "status200"

\* The cache lookup of fetchAndCacheChunk finding nothing, whatever is cached.
Found_Never(r, chunkStartOffset) == FALSE

\* cachedData, found := r.cache[chunkStartOffset]
Found(r, chunkStartOffset) == chunkStartOffset \in DOMAIN r.cache

\* fetchAndCacheChunk(chunkStartOffset): the chunk, the error, the cache left
\* and the range GETs issued so far: each with its Range header and whether
\* the chunk was cached or had been asked for before.
fetchAndCacheChunk(r, srv, chunkStartOffset) ==
    LET chunkEndOffset == Min(chunkStartOffset + r.chunkSize - 1, r.size - 1)
        whole == SubSeq(srv.file, chunkStartOffset + 1,
                        Min(chunkEndOffset + 1, Len(srv.file)))
        answer == Answer(srv, chunkStartOffset)
        chunkData == CASE answer = "honor" -> whole
                       [] answer = "short" -> SubSeq(whole, 1, Len(whole) - 1)
                       [] answer = "status200" -> srv.file
                       [] OTHER -> <<>>
        get == [chunkStart |-> chunkStartOffset, chunkEnd |-> chunkEndOffset,
                again |-> \/ chunkStartOffset \in DOMAIN r.cache
                          \/ \E g \in r.gets : g.chunkStart = chunkStartOffset]
        out(d, e, c) == [data |-> d, err |-> e, cache |-> c,
                         gets |-> r.gets \cup {get}]
    IN IF Found(r, chunkStartOffset)
       THEN [data |-> r.cache[chunkStartOffset], err |-> "nil",
             cache |-> r.cache, gets |-> r.gets]
       ELSE IF chunkStartOffset >= r.size
       THEN [data |-> <<>>, err |-> "EOF", cache |-> r.cache, gets |-> r.gets]
       ELSE IF answer = "error" THEN out(<<>>, "GET failed", r.cache)
       ELSE IF ~IsPartialContent(answer) THEN out(<<>>, "status 200", r.cache)
       ELSE IF Len(chunkData) = 0 THEN out(<<>>, "unexpected EOF", r.cache)
       ELSE out(chunkData, "nil",
                [k \in DOMAIN r.cache \cup {chunkStartOffset} |->
                    IF k = chunkStartOffset THEN chunkData ELSE r.cache[k]])

\* The loop of Read: st holds bytesCopied, currentReadOffsetInRequest, the
\* bytes copied into p and the reader.  Returns with the mutex still held
\* are marked locked.
RECURSIVE ReadLoop(_, _, _)
ReadLoop(srv, bytesToRead, st) ==
    LET r == st.r
        result(reader, n, e) == [r |-> reader, n |-> n, err |-> e, data |-> st.buf]
    IN
    IF st.copied >= bytesToRead
    THEN result([r EXCEPT !.currentOffset = st.cur], st.copied, "nil")
    ELSE
    LET chunkStartOffset == ChunkStartOf(st.cur, r.chunkSize)
        offsetInChunk == st.cur % r.chunkSize
        f == fetchAndCacheChunk(r, srv, chunkStartOffset)
        held == [r EXCEPT !.cache = f.cache, !.gets = f.gets, !.locked = TRUE]
        bytesToCopyFromChunk ==
            Min(Len(f.data) - offsetInChunk, bytesToRead - st.copied)
        copied == st.copied + bytesToCopyFromChunk
        cur == st.cur + bytesToCopyFromChunk
        buf == st.buf \o SubSeq(f.data, offsetInChunk + 1,
                                offsetInChunk + bytesToCopyFromChunk)
    IN IF f.err # "nil"
       THEN IF f.err = "EOF" /\ st.copied > 0
            THEN result([held EXCEPT !.currentOffset = @ + st.copied], st.copied, "nil")
            ELSE result(held, st.copied, f.err)
       ELSE IF Len(f.data) - offsetInChunk <= 0
       THEN IF st.copied > 0
            THEN result([held EXCEPT !.currentOffset = @ + st.copied], st.copied, "nil")
            ELSE result(held, 0, "EOF")
       ELSE IF cur >= r.size
       THEN [r |-> [r EXCEPT !.cache = f.cache, !.gets = f.gets,
                             !.currentOffset = cur],
             n |-> copied, err |-> "nil", data |-> buf]
       ELSE ReadLoop(srv, bytesToRead,
                     [copied |-> copied, cur |-> cur, buf |-> buf,
                      r |-> [r EXCEPT !.cache = f.cache, !.gets = f.gets]])

\* RangeReadSeeker.Read(p) with len(p) = n
RangeReadSeeker_Read(r, srv, n) ==
    LET bytesToRead == Min(n, r.size - r.currentOffset)
        out(c, e) == [r |-> r, n |-> c, err |-> e, data |-> <<>>]
    IN IF r.initialError # "nil" THEN out(0, "reader initialisation error")
       ELSE IF r.currentOffset >= r.size THEN out(0, "EOF")
       ELSE IF bytesToRead = 0 THEN out(0, "nil")
       ELSE ReadLoop(srv, bytesToRead,
                     [copied |-> 0, cur |-> r.currentOffset, buf |-> <<>>, r |-> r])

\* RangeReadSeeker.Seek(offset, whence)
RangeReadSeeker_Seek(r, offset, whence) ==
    LET newOffset == CASE whence = "SeekStart" -> offset
                       [] whence = "SeekCurrent" -> r.currentOffset + offset
                       [] whence = "SeekEnd" -> r.size + offset
    IN IF r.initialError # "nil"
       THEN [r |-> r, n |-> 0, err |-> "reader initialisation error"]
       ELSE IF newOffset < 0
       THEN [r |-> r, n |-> r.currentOffset, err |-> "negative offset"]
       ELSE [r |-> [r EXCEPT !.currentOffset = newOffset], n |-> newOffset,
             err |-> "nil"]

\* ------------------------------------------------ calls on the HTTP reader
RemoteFile == <<5, 6, 7, 8, 9>>
HeadResponses ==
    { [status |-> 0, length |-> NoHeader],
      [status |-> 404, length |-> NoHeader],
      [status |-> 200, length |-> Number(Len(RemoteFile))],
      [status |-> 200, length |-> NoHeader],
      [status |-> 204, length |-> Number(0)],
      [status |-> 202, length |-> Text("abc")] }
FirstResponses ==
    { [status |-> 206, range |-> Number(Len(RemoteFile)), length |-> Number(1)],
      [status |-> 206, range |-> Text("*"), length |-> Number(1)],
      [status |-> 206, range |-> NoHeader, length |-> Number(1)],
      [status |-> 206, range |-> Number(0), length |-> Number(1)],
      [status |-> 200, range |-> NoHeader, length |-> Number(Len(RemoteFile))],
      [status |-> 200, range |-> NoHeader, length |-> NoHeader],
      [status |-> 404, range |-> NoHeader, length |-> NoHeader],
      [status |-> 0, range |-> NoHeader, length |-> NoHeader] }
RangeBehaviours == {"honor", "short", "empty", "status200", "error"}
ChunkSizes == {0, 1, 2, 3}
FaultyFrom == {0, 2}

InitHttp ==
    /\ entry = "NewRangeReadSeeker"
    /\ \E h \in HeadResponses, f \in FirstResponses, g \in RangeBehaviours,
          c \in ChunkSizes, from \in FaultyFrom :
          /\ g = "honor" => from = 0
          /\ server = [file |-> RemoteFile, head |-> h, first |-> f, range |-> g,
                       from |-> from, chunk |-> c]
    /\ archive = <<>> /\ zfr = NoReader /\ zpr = NoReader
    /\ rrs = NoReader /\ ret = NoReader

NewRangeReadSeeker_Call ==
    /\ entry = "NewRangeReadSeeker" /\ rrs = NoReader
    /\ rrs' = NewRangeReadSeeker(server)
    /\ ret' = [op |-> "NewRangeReadSeeker", err |-> rrs'.initialError]
    /\ UNCHANGED <<archive, zfr, zpr, server>>
    /\ UNCHANGED extraction

RangeReadSeeker_Read_Call ==
    /\ rrs # NoReader /\ ~rrs.locked
    /\ \E n \in 0..MaxRead :
          LET r == RangeReadSeeker_Read(rrs, server, n)
          IN /\ rrs' = r.r
             /\ ret' = [op |-> "Read", at |-> rrs.currentOffset, len |-> n,
                        n |-> r.n, err |-> r.err, data |-> r.data,
                        gets |-> r.r.gets \ rrs.gets, cache |-> rrs.cache]
    /\ UNCHANGED <<archive, zfr, zpr, server>>
    /\ UNCHANGED extraction

RangeReadSeeker_Seek_Call ==
    /\ rrs # NoReader /\ ~rrs.locked
    /\ \E offset \in SeekOffsets, whence \in Whences :
          LET r == RangeReadSeeker_Seek(rrs, offset, whence)
          IN /\ r.r.currentOffset <= rrs.size + 2
             /\ rrs' = r.r
             /\ ret' = [op |-> "Seek", n |-> r.n, err |-> r.err]
    /\ UNCHANGED <<archive, zfr, zpr, server>>
    /\ UNCHANGED extraction

\* ------------------------------------------------- the readers on their own
\* No extraction runs: the core's variables stay as constructed.
NoRun ==
    /\ InitRun /\ FaultFree
    /\ src = <<>> /\ manifest = NoManifest /\ partitions_name = <<>>
    /\ max_workers = 1 /\ partition = ""
    /\ entry \in {"NewZipFileSeekReader", "NewZipPayloadReader", "NewRangeReadSeeker"}
    /\ files = EmptyDir

InitReaders == NoRun /\ (InitZip \/ InitZipPayload \/ InitHttp)

NextReaders ==
    \/ NewZipFileSeekReader_Call
    \/ NewZipPayloadReader_Call
    \/ ZipFileSeekReader_Seek_Call
    \/ ZipFileSeekReader_Read_Call
    \/ \E c \in Callers : ZipPayloadReader_Enter(c)
    \/ \E c \in Callers : ZipPayloadReader_ReadAt_Call(c)
    \/ \E c \in Callers : ZipPayloadReader_Seek_Call(c)
    \/ \E c \in Callers : ZipPayloadReader_Close_Call(c)
    \/ NewRangeReadSeeker_Call
    \/ RangeReadSeeker_Read_Call
    \/ RangeReadSeeker_Seek_Call

SpecReaders == InitReaders /\ [][NextReaders]_vars

\* ================================================================= claims
\* The header the file holds, when it holds a whole one.
FileHdr == DecodeHdr(SubSeq(src, 1, HdrSize))
WholeHdr == Len(src) >= HdrSize
ParserRan == entry = "extract" /\ pc # "start"

\* C1: InitPayloadInfo returns a manifest only if the magic is "CrAU", the
\* manifest length and the signature length are positive and the manifest's
\* minor_version is 0; if one of these fails it returns an error and no
\* manifest.
C1_ManifestOnlyIfValid ==
    ParserRan =>
        LET valid == /\ WholeHdr
                     /\ FileHdr.Magic = PAYLOAD_MAGIC
                     /\ FileHdr.ManifestLen > 0
                     /\ FileHdr.ManifestSigLen > 0
                     /\ manifest.minor_version = 0
        IN /\ parsed # NoManifest => valid /\ err = "nil" /\ parsed.minor_version = 0
           /\ ~valid => parsed = NoManifest /\ err # "nil" /\ pc = "fatal"

C1_Witness ==
    /\ ParserRan /\ parsed # NoManifest /\ pc = "done"
    /\ FileHdr.Version = 3

\* C2: a payload whose first four bytes are not "CrAU" is rejected with
\* 'invalid magic' before any manifest read: the cursor is within the 24
\* header bytes, and no partition image exists.
C2_BadMagicRejectedEarly ==
    ParserRan /\ Len(src) >= 4 /\ SubSeq(src, 1, 4) # PAYLOAD_MAGIC =>
        /\ pc = "fatal" /\ err = "invalid magic" /\ parsed = NoManifest
        /\ pos <= HdrSize
        /\ DOMAIN files = {}

C2_Witness ==
    /\ ParserRan /\ Len(src) > HdrSize + 4 /\ SubSeq(src, 1, 4) # PAYLOAD_MAGIC
    /\ FileHdr.ManifestLen > 0 /\ FileHdr.ManifestSigLen > 0
    /\ pc = "fatal" /\ err = "invalid magic" /\ pos = HdrSize

\* A whole file with a good header apart from the version, holding a full
\* payload's manifest.
ValidButVersion ==
    /\ Len(src) = HdrSize + FileHdr.ManifestLen + FileHdr.ManifestSigLen + Len(Blob)
    /\ FileHdr.Magic = PAYLOAD_MAGIC
    /\ FileHdr.ManifestLen = Len(ManifestBytes(manifest))
    /\ FileHdr.ManifestSigLen > 0
    /\ manifest.minor_version = 0

\* C3: a header version other than 2 does not abort: in both entry points
\* that parse the header (InitPayloadInfo under ExtractPartitionsFromPayload,
\* and ExtractBootFromPayload asked for a partition the manifest holds) an
\* otherwise valid payload is accepted, with version 3 as with version 2.
C3_VersionInformational ==
    /\ pc # "start" /\ WholeHdr /\ ValidButVersion
    /\ entry = "boot" => \E i \in 1..Len(manifest.partitions) :
                            manifest.partitions[i].partition_name = partition
    => err = "nil" /\ pc # "fatal"

\* The partitions the selection list asks for, as indices in the manifest.
Wanted ==
    {i \in 1..Len(manifest.partitions) :
        \/ Len(partitions_name) = 0
        \/ \E j \in 1..Len(partitions_name) :
              partitions_name[j] = manifest.partitions[i].partition_name}
WantedImages == {manifest.partitions[i].partition_name \o ".img" : i \in Wanted}

\* C4: no image of a partition outside the selection is ever created, and
\* when ExtractPartitionsFromPayload is over the images are exactly those of
\* the selected partitions (of all of them for an empty list), extracted in
\* the manifest's order.
C4_SelectionExact ==
    ParserRan /\ pc # "fatal" =>
        /\ DOMAIN files \subseteq WantedImages
        /\ pc = "done" =>
              /\ DOMAIN files = WantedImages
              /\ Len(extracted) = Cardinality(Wanted)
              /\ \E f \in [1..Len(extracted) -> Wanted] :
                    /\ \A a, b \in 1..Len(extracted) : a < b => f[a] < f[b]
                    /\ \A a \in 1..Len(extracted) :
                          extracted[a] = manifest.partitions[f[a]].partition_name

C4_Witness ==
    /\ ParserRan /\ pc = "done"
    /\ Len(manifest.partitions) = 3
    /\ partitions_name = <<"system", "boot">>
    /\ extracted = <<"boot", "system">>
    /\ DOMAIN files = {"boot.img", "system.img"}

\* ---------------------------------------------- what a manifest asks for
\* The bytes (1-based file indices) of an operation's destination extents.
ExtentBytes(op, bs) ==
    UNION {(e.start_block * bs + 1)..((e.start_block + e.num_blocks) * bs) :
              e \in Range(op.dst_extents)}

\* The operation's source bytes in the data blob.
InBlob(op) == op.data_offset + op.data_length <= Len(Blob)
Window(op) == SubSeq(Blob, op.data_offset + 1, op.data_offset + op.data_length)

\* The bytes the operation is to place from dst_extents[0] on.
Produced(op) ==
    CASE op.type = "REPLACE" -> Window(op)
      [] op.type \in {"REPLACE_BZ", "REPLACE_XZ"} -> Decompress(Window(op)).out
      [] OTHER -> <<>>
PlacedBytes(op, bs) ==
    (op.dst_extents[1].start_block * bs + 1)..
        (op.dst_extents[1].start_block * bs + Len(Produced(op)))

\* The manifest's guarantees (spec section 3): every data window lies in the
\* data blob, what an operation places fits its own extents, and the extents
\* of different operations are disjoint.
WellFormed(p, bs) ==
    /\ \A i \in 1..Len(p.operations) :
          /\ InBlob(p.operations[i])
          /\ PlacedBytes(p.operations[i], bs) \subseteq ExtentBytes(p.operations[i], bs)
    /\ \A i, j \in 1..Len(p.operations) :
          i # j => ExtentBytes(p.operations[i], bs)
                       \cap ExtentBytes(p.operations[j], bs) = {}

\* Partition i of all_parts is being extracted / its extraction is just over
\* (every worker has finished, or extractPartitionFromPayload has returned).
Extracting(i) == i = idx /\ pc \in {"read", "submit", "wait"}
AfterExtraction(i) ==
    \/ i = idx /\ pc = "wait" /\ wg[i] = 0
    \/ i = idx - 1 /\ pc \in {"part", "done"}
Image(i) == files[ImgPath(all_parts[i])]
Parts == IF entry = "extract" THEN 1..Len(all_parts) ELSE {}

\* C5: the output file size of a partition is the maximum over its operations
\* of (last dst_extent.start_block + num_blocks) * block_size (and so does not
\* depend on the order of the operations).  Stated for well-formed partitions.
C5_SizeIsMaxOverOperations ==
    \A i \in Parts :
        AfterExtraction(i) /\ WellFormed(all_parts[i], parsed.block_size) =>
            Len(Image(i)) =
                SetMax({(last(op.dst_extents).start_block
                           + last(op.dst_extents).num_blocks) * parsed.block_size :
                        op \in Range(all_parts[i].operations)})

\* C6: the output file is pre-sized to total_size(P), the end of the last
\* extent of the last operation, and no positioned write extends it: during
\* and after the extraction its size is total_size(P).  Stated for well-formed
\* partitions.
C6_SizedExactlyToTotalSize ==
    \A i \in Parts :
        /\ Extracting(i) \/ AfterExtraction(i)
        /\ WellFormed(all_parts[i], parsed.block_size)
        => Len(Image(i)) = total_length(all_parts[i], parsed.block_size)

C8_ReplaceVerbatim ==
    \A i \in Parts :
        AfterExtraction(i) /\ WellFormed(all_parts[i], parsed.block_size) =>
            LET ops == all_parts[i].operations
                bs == parsed.block_size
            IN /\ \A op \in Range(ops) :
                      op.type = "REPLACE" =>
                          LET off == op.dst_extents[1].start_block * bs
                          IN /\ off + op.data_length <= Len(Image(i))
                             /\ SubSeq(Image(i), off + 1, off + op.data_length)
                                    = Window(op)
               /\ \A b \in 1..Len(Image(i)) :
                      (\A op \in Range(ops) : b \notin PlacedBytes(op, bs))
                          => Image(i)[b] = 0
               /\ (/\ Len(ops) = 1 /\ ops[1].type = "REPLACE"
                   /\ ops[1].dst_extents[1].start_block = 0
                   /\ ops[1].data_length = total_length(all_parts[i], bs))
                      => Image(i) = Window(ops[1])

C8_Witness ==
    \E i \in Parts :
        /\ AfterExtraction(i) /\ WellFormed(all_parts[i], parsed.block_size)
        /\ Len(all_parts[i].operations) = 2
        /\ \A k \in 1..2 : all_parts[i].operations[k].type = "REPLACE"
        /\ all_parts[i].operations[1].data_offset > 0
        /\ Image(i) = <<2, 7, 1, 9>>

\* The image the code leaves for a well-formed partition, as a function of the
\* manifest and the blob alone: pre-sized from the last operation, grown by
\* the writes that end past that, holding what each operation places.
ZeroEnds(op, bs) ==
    IF op.type = "ZERO"
    THEN {e.start_block * bs + e.num_blocks : e \in Range(op.dst_extents)}
    ELSE {}
ExpectedImage(p, bs) ==
    LET ops == Range(p.operations)
        ends == {total_length(p, bs)}
                  \cup UNION {PlacedBytes(op, bs) : op \in ops}
                  \cup UNION {ZeroEnds(op, bs) : op \in ops}
    IN [b \in 1..SetMax(ends) |->
          IF \E op \in ops : b \in PlacedBytes(op, bs)
          THEN LET op == CHOOSE o \in ops : b \in PlacedBytes(o, bs)
               IN Produced(op)[b - op.dst_extents[1].start_block * bs]
          ELSE 0]

\* C9: for a well-formed payload (disjoint destination extents) the output
\* file is determined by the input alone: after the extraction it is the
\* same image for every interleaving of the workers and every worker count.
C9_Deterministic ==
    \A i \in Parts :
        AfterExtraction(i) /\ WellFormed(all_parts[i], parsed.block_size) =>
            Image(i) = ExpectedImage(all_parts[i], parsed.block_size)

C9_Witness ==
    \E i \in Parts :
        /\ AfterExtraction(i) /\ WellFormed(all_parts[i], parsed.block_size)
        /\ max_workers = 2 /\ Len(all_parts[i].operations) = 2
        /\ all_parts[i].operations[1].data_offset
              > all_parts[i].operations[2].data_offset
        /\ Image(i) = <<7, 7, 1, 9>>

\* C10: a manifest whose operations within a partition are shuffled yields
\* the same output file, size and bytes.  Both arrangements are extracted in
\* one run, as the partitions system_a and system_b.
C10_ShuffleInvariant ==
    /\ entry = "extract" /\ pc = "done" /\ Len(all_parts) = 2
    /\ all_parts[1].partition_name = "system_a"
    /\ all_parts[2].partition_name = "system_b"
    /\ \E f \in Permutations(1..Len(all_parts[1].operations)) :
          all_parts[2].operations =
              [k \in 1..Len(all_parts[1].operations) |->
                  all_parts[1].operations[f[k]]]
    /\ WellFormed(all_parts[1], parsed.block_size)
    => files["system_a.img"] = files["system_b.img"]

\* ------------------------------------------------------ failure isolation
LoggedFor(i) == {n \in 1..Len(logged) : logged[n].p = i}
Ran(i) == {r.k : r \in {x \in finished : x.p = i}}

\* C11: once the payload is parsed no error ends the run: a worker's error
\* (codec, write, unknown type) is only logged and every operation of the
\* partition is still read and run, and after a partition that failed as a
\* whole (a source read error) every later selected partition is extracted.
C11_FailuresIsolated ==
    entry = "extract" /\ pc # "start" /\ err = "nil" =>
        /\ pc # "fatal"
        /\ pc = "done" =>
              /\ Len(extracted) = Len(all_parts)
              /\ \A i \in Parts :
                    LoggedFor(i) = {} =>
                        /\ Ran(i) = 1..Len(all_parts[i].operations)
                        /\ ImgPath(all_parts[i]) \in DOMAIN files

C11_Witness ==
    /\ entry = "extract" /\ pc = "done" /\ Len(all_parts) = 2
    /\ LoggedFor(1) # {} /\ LoggedFor(2) = {}
    /\ \E r \in finished : r.p = 1 /\ r.err = "unexpcted data type"
    /\ files["vendor.img"] = <<2, 7>>

\* C12: a failed output-creation step terminates the run: when os.Create or
\* fd.Truncate fails for a partition no later partition is processed, and
\* after a parser failure no partition is processed at all.
C12_CreateFailureEndsRun ==
    entry = "extract" =>
        /\ pc = "fatal" => extracted = <<>>
        /\ \A n \in 1..Len(logged) :
              logged[n].err \in {"create", "truncate"} =>
                  Len(extracted) <= logged[n].p

\* C13: after InitPayloadInfo succeeds on a source positioned at 0 the source
\* cursor, which ExtractPartitionsFromPayload captures as baseoff, is the
\* data-blob base 24 + manifest_len + manifest_sig_len, for every kind of
\* source (local file, ZipPayloadReader stored or deflated).
C13_CursorAtBlobBase ==
    entry = "extract" /\ pc # "start" /\ err = "nil" =>
        /\ pos >= 0
        /\ baseoff = HdrSize + FileHdr.ManifestLen + FileHdr.ManifestSigLen

\* ----------------------------------------------------------------- C14
\* The entries of the archive whose name ends with payload.bin.
PayloadEntries == { i \in 1..Len(archive) : HasSuffix(archive[i].name, PayloadBin) }
FirstPayloadEntry == CHOOSE i \in PayloadEntries : \A j \in PayloadEntries : i <= j

\* C14: each ZIP reader constructor takes one entry, the first in archive
\* order whose name ends with payload.bin; with no such entry it returns an
\* error and no reader.
C14_FirstPayloadEntry ==
    /\ zfr # NoReader =>
          IF PayloadEntries = {} THEN zfr.state = "error"
          ELSE zfr.state = "ready" /\ zfr.zfile = FirstPayloadEntry
    /\ zpr # NoReader =>
          IF PayloadEntries = {} THEN zpr.state = "error"
          ELSE /\ zpr.state \in {"ready", "raced"} /\ zpr.zf = FirstPayloadEntry
               /\ zpr.dataoff = DataOffset(archive, FirstPayloadEntry)

\* Both constructors ran on an archive with two matching entries, the first
\* of them not the first entry of the archive.
C14_Witness ==
    /\ zfr # NoReader /\ zpr # NoReader
    /\ PayloadEntries = {2, 3}
    /\ zfr.state = "ready" /\ zfr.zfile = 2 /\ zpr.zf = 2

\* ----------------------------------------------------------------- C15
\* The bytes of the payload.bin entry the ZipFileSeekReader reads.
ZfrEntry == archive[zfr.zfile].data

\* C15: a Read of the ZipFileSeekReader at a cursor >= 0 returns bytes of the
\* payload.bin entry starting at the cursor (some, whenever the buffer has
\* room and the entry has bytes left there), whether the stream was re-opened
\* after a backward seek, continued, or skipped forward; the cursor advances
\* by the number of bytes returned.  A Read at a negative cursor returns an
\* error and leaves the cursor.
C15_ReadAtCursor ==
    (zfr # NoReader /\ zfr.state = "ready" /\ ret.op = "Read") =>
        IF ret.at < 0
        THEN ret.err # "nil" /\ ret.data = <<>> /\ zfr.pos = ret.at
        ELSE /\ ret.err = "nil"
             /\ ret.n = Len(ret.data)
             /\ ret.n <= ret.len
             /\ \A i \in 1..ret.n : ret.at + i <= Len(ZfrEntry)
                                     /\ ret.data[i] = ZfrEntry[ret.at + i]
             /\ (ret.n = 0) <=> (ret.len = 0 \/ ret.at >= Len(ZfrEntry))
             /\ zfr.pos = ret.at + ret.n

\* A Read after a backward Seek(0, SeekStart) that followed earlier reads: the
\* stream was re-opened and the first bytes of the entry came back.
C15_Witness ==
    /\ zfr # NoReader /\ zfr.state = "ready" /\ ret.op = "Read"
    /\ ret.path = "reopen" /\ ret.at = 0 /\ ret.n = 2
    /\ ret.data = SubSeq(ZfrEntry, 1, 2)

\* ----------------------------------------------------------------- C16
\* The answer to the ranged GET (bytes=0-0) is a 206 whose Content-Range
\* carries a numeric positive TOTAL.
GoodFirstResponse ==
    /\ server.first.status = 206
    /\ server.first.range.kind = "num" /\ server.first.range.v > 0

\* C16: a RangeReadSeeker initialised through the ranged GET has no initial
\* error exactly when the answer is a 206 with a numeric positive TOTAL, and
\* then size = TOTAL; after a 200 OK, a TOTAL of *, or a missing
\* Content-Range it keeps the error, and every Read returns that error with
\* no bytes.
C16_RangedInit ==
    (rrs # NoReader /\ rrs.ranged) =>
        /\ (rrs.initialError = "nil") <=> GoodFirstResponse
        /\ GoodFirstResponse => rrs.size = server.first.range.v
        /\ (~GoodFirstResponse /\ ret.op = "Read") =>
              /\ ret.n = 0 /\ ret.data = <<>>
              /\ ret.err = "reader initialisation error"
              /\ rrs.currentOffset = 0 /\ rrs.cache = <<>>

\* A Read was refused on a reader whose ranged GET got a 200 OK stating the
\* whole length.
C16_Witness ==
    /\ rrs # NoReader /\ rrs.ranged
    /\ server.first.status = 200 /\ server.first.length.kind = "num"
    /\ ret.op = "Read" /\ ret.len > 0 /\ ret.n = 0
    /\ ret.err = "reader initialisation error"

\* ----------------------------------------------------------------- C17
\* C17: against a server that honors range requests, a Read of the
\* RangeReadSeeker with cursor c < size and a buffer of L bytes returns
\* n = min(L, size - c) bytes, equal to remote[c, c+n), whatever the chunk
\* size and whatever earlier reads left in the cache, and moves the cursor by
\* n; a Read at c >= size returns end-of-stream with 0 bytes.
C17_ReadResult ==
    (rrs # NoReader /\ rrs.initialError = "nil" /\ server.range = "honor"
       /\ ret.op = "Read") =>
        IF ret.at < rrs.size
        THEN /\ ret.n = Min(ret.len, rrs.size - ret.at)
             /\ ret.data = SubSeq(server.file, ret.at + 1, ret.at + ret.n)
             /\ ret.err = "nil"
             /\ rrs.currentOffset = ret.at + ret.n
             /\ ~rrs.locked
        ELSE ret.n = 0 /\ ret.data = <<>> /\ ret.err = "EOF" /\ ~rrs.locked

\* A Read of three bytes from cursor 1 with chunks of two bytes, all three
\* chunks of the file cached by then: it crossed a chunk boundary, and the
\* last chunk was there from an earlier read.
C17_Witness ==
    /\ rrs # NoReader /\ rrs.initialError = "nil" /\ server.range = "honor"
    /\ ret.op = "Read" /\ rrs.chunkSize = 2
    /\ ret.at = 1 /\ ret.n = 3 /\ ret.data = SubSeq(server.file, 2, 4)
    /\ DOMAIN rrs.cache = {0, 2, 4}

\* ----------------------------------------------------------------- C18
\* The bytes of the source at the operation's data window, counted from the
\* base offset the run captured.
SourceWindow(op) ==
    SubSeq(src, baseoff + op.data_offset + 1,
           baseoff + op.data_offset + op.data_length)
InSource(op) == baseoff + op.data_offset + op.data_length <= Len(src)

\* C18: for every operation whose data window lies in the source, whatever
\* the kind of source, the read starts with the source cursor at
\* baseoff + data_offset, and the buffer handed to the worker holds the
\* data_length bytes of the window.
C18_InputExact ==
    \A n \in 1..Len(reads) :
        LET op == reads[n].operation
        IN (InSource(op) /\ op.data_length > 0) =>
              /\ reads[n].at = baseoff + op.data_offset
              /\ reads[n].err = "nil" => reads[n].buf = SourceWindow(op)

\* ----------------------------------------------------------------- C19
\* C19: the reads of one partition are in ascending data_offset order and
\* move forward only: each starts at a source position not before the one
\* the previous read started at, and every relative seek
\* data_offset - curr_data_offset is >= 0, whatever the manifest.
C19_ForwardReads ==
    \A n \in 1..Len(reads) :
        /\ reads[n].rel >= 0
        /\ (n > 1 /\ reads[n - 1].p = reads[n].p) =>
              /\ reads[n - 1].operation.data_offset <= reads[n].operation.data_offset
              /\ reads[n - 1].at <= reads[n].at

\* ----------------------------------------------------------------- C20
\* C20: on every way out of a partition's extraction no worker task of the
\* partition is pending or running once its output file is closed, nor once
\* the dispatcher has moved on to the next partition.
C20_Barrier ==
    \A t \in tasks :
        /\ t.p \in fdOpen
        /\ t.p = idx
        /\ pc \in {"read", "submit", "wait"}

\* ----------------------------------------------------------------- C21
\* C21: at every moment of a run the operations being decoded or written are
\* at most max_workers, over all partitions, and the dispatcher stays at its
\* Submit while max_workers tasks are running.
C21_BoundedParallelism ==
    /\ Cardinality(tasks) <= max_workers
    /\ (pc = "submit" /\ Cardinality(tasks) >= max_workers) =>
          ~ENABLED extractPartitionFromPayload_Submit

\* ----------------------------------------------------------------- C22
\* C22: a ZERO operation that returned without error has written, for each
\* of its extents, the num_blocks * block_size bytes from
\* start_block * block_size on, and no byte outside its extents.
C22_ZeroWritesExtents ==
    \A f \in finished :
        (f.operation.type = "ZERO" /\ f.err = "nil") =>
            f.wrote = ExtentBytes(f.operation, parsed.block_size)

\* ----------------------------------------------------------------- C23
\* The operation types the handler knows.
KnownTypes == {"REPLACE", "REPLACE_BZ", "REPLACE_XZ", "ZERO"}

\* The tasks of partition i that are submitted and have not returned.
Pending(i) == {t \in tasks : t.p = i}
Returned(i) == {f \in finished : f.p = i}

\* C23: an operation of any other type than REPLACE, REPLACE_BZ, REPLACE_XZ,
\* ZERO ends with the BadPayload error, has written no byte, has added
\* nothing to the progress bar, and has signalled the partition's WaitGroup:
\* the count left is that of the tasks still pending (plus the one the
\* dispatcher has added and not yet submitted).
C23_UnknownTypeIsError ==
    /\ \A f \in finished :
          f.operation.type \notin KnownTypes =>
              f.err = "unexpcted data type" /\ f.wrote = {} /\ f.write_len = 0
    /\ \A i \in DOMAIN wg :
          wg[i] = Cardinality(Pending(i))
                    + (IF i = idx /\ pc = "submit" THEN 1 ELSE 0)

\* A MOVE operation has returned its error, and the partition's extraction
\* went past the barrier.
C23_Witness ==
    /\ \E f \in finished :
          /\ f.operation.type = "MOVE" /\ f.err = "unexpcted data type"
          /\ f.p = 1 /\ wg[1] = 0
    /\ idx = 2 /\ pc = "part" /\ logged = <<>>

\* ---------------------------------------------------------------- C24
\* The call just returned is a ReadAt or Read on a deflated entry that had
\* not been closed.
DeflatedRead ==
    /\ entry = "NewZipPayloadReader"
    /\ ret # NoReader /\ ret.op \in {"ReadAt", "Read"}
    /\ zpr # NoReader /\ zpr.state = "ready"
    /\ archive[zpr.zf].method = "deflate"
    /\ ret.before.stream # "closed"

\* entry[off, off+n)
EntryRange(d, off, n) ==
    IF off >= 0 /\ off + n <= Len(d) THEN SubSeq(d, off + 1, off + n) ELSE <<>>

\* C24: a ZipPayloadReader read at offset off on a deflated entry keeps the
\* stream it has exactly when a stream is open and stream_start +
\* stream_offset = off, and opens the entry anew otherwise; in both cases the
\* n bytes it returns are entry[off, off+n), after any reads and seeks.
C24_StreamReuse ==
    DeflatedRead =>
        /\ ret.opened <=> ~(ret.before.stream = "open" /\ ret.before.expected = ret.off)
        /\ ret.n > 0 => ret.data = EntryRange(archive[zpr.zf].data, ret.off, ret.n)

\* ---------------------------------------------------------------- C25
\* C25: a ZIP reader has at most one decompression stream open at any time,
\* whatever ReadAt, Read and Seek calls were made one after another (a read
\* that opens the entry anew has closed the stream it had), and when
\* ZipPayloadReader.Close returns none is open.
C25_OneStreamOpen ==
    /\ (zfr # NoReader /\ zfr.state = "ready") => zfr.opens \in {0, 1}
    /\ (zpr # NoReader /\ zpr.state = "ready") =>
          /\ zpr.opens \in {0, 1}
          /\ zpr.opens = 1 <=> zpr.stream = "open"
          /\ (entry = "NewZipPayloadReader" /\ ret.op = "Close") => zpr.opens = 0

\* A read that found an open stream standing elsewhere and opened the entry
\* anew.
C25_Witness ==
    /\ DeflatedRead
    /\ ret.before.stream = "open" /\ ret.opened
    /\ zpr.opens = 1

\* ---------------------------------------------------------------- C26
\* The callers inside a method of the ZipPayloadReader.
Inside == {c \in Callers : zpr.calls[c] # "idle"}

\* C26: one mutex serializes ReadAt, Read, Seek and Close of a
\* ZipPayloadReader: at no time are two callers inside these methods, at
\* their accesses to pos, stream, streamStart and streamOffset.
C26_Serialized ==
    (zpr # NoReader /\ zpr.state # "error") => Cardinality(Inside) <= 1

\* ---------------------------------------------------------------- C27
\* The HEAD request succeeded with a status in {200, 202, 204} and a
\* positive Content-Length.
HeadGivesSize(resp) ==
    /\ resp.status \in {200, 202, 204}
    /\ resp.length.kind = "num" /\ resp.length.v > 0

\* C27: when HEAD succeeds with a status in {200, 202, 204} and a positive
\* Content-Length, NewRangeReadSeeker takes that length for the size and
\* issues no ranged GET; in every other HEAD outcome (transport error, other
\* status, missing, non-positive or unparsable Content-Length) it issues the
\* GET with Range: bytes=0-0.
C27_InitProtocol ==
    rrs # NoReader =>
        IF HeadGivesSize(server.head)
        THEN rrs.size = server.head.length.v /\ ~rrs.ranged
             /\ rrs.initialError = "nil"
        ELSE rrs.ranged

\* ---------------------------------------------------------------- C28
\* The reader of the HTTP source, once constructed.
Constructed == rrs # NoReader /\ entry = "NewRangeReadSeeker"

\* C28: every range GET a read issues has chunkStart a multiple of chunk_size
\* below size and chunkEnd = min(chunkStart + chunk_size - 1, size - 1); every
\* cache key is such a chunkStart; and with one caller no GET is issued for a
\* chunk that is in the cache, so no chunk is fetched twice.
C28_ChunkCache ==
    Constructed =>
        /\ \A g \in rrs.gets :
              /\ g.chunkStart % rrs.chunkSize = 0
              /\ g.chunkStart >= 0 /\ g.chunkStart < rrs.size
              /\ g.chunkEnd = Min(g.chunkStart + rrs.chunkSize - 1, rrs.size - 1)
              /\ ~g.again
        /\ \A k \in DOMAIN rrs.cache :
              /\ k % rrs.chunkSize = 0 /\ k >= 0 /\ k < rrs.size
              /\ \E g \in rrs.gets : g.chunkStart = k

\* Two chunks were fetched, the shorter last chunk of the file among them,
\* and the read just returned was served from the cache without a GET.
C28_Witness ==
    /\ Constructed /\ ret.op = "Read"
    /\ ret.n > 0 /\ ret.gets = {}
    /\ Cardinality(rrs.gets) >= 2
    /\ \E g \in rrs.gets :
          g.chunkEnd = rrs.size - 1 /\ g.chunkEnd < g.chunkStart + rrs.chunkSize - 1

\* ---------------------------------------------------------------- C29
\* The range GETs of the Read just returned that the server answered in the
\* given way.
Answered(answer) ==
    {g \in ret.gets : Answer(server, g.chunkStart) = answer}

\* C29: when a chunk's range GET is answered with a status other than 206,
\* the Read returns an error and that chunk is not put into the cache: the
\* cache holds what it held before the Read and the chunks the Read fetched
\* with success before the failure.
C29_Non206IsFatal ==
    (Constructed /\ ret.op = "Read" /\ Answered("status200") # {}) =>
        /\ ret.err = "status 200"
        /\ \A g \in Answered("status200") : g.chunkStart \notin DOMAIN rrs.cache
        /\ \A k \in DOMAIN ret.cache :
              k \in DOMAIN rrs.cache /\ rrs.cache[k] = ret.cache[k]
        /\ \A k \in DOMAIN rrs.cache \ DOMAIN ret.cache :
              \E g \in Answered("honor") : g.chunkStart = k

\* A Read over two chunks with one chunk cached before: the first GET was
\* honored, the second answered 200.
C29_Witness ==
    /\ Constructed /\ ret.op = "Read"
    /\ Answered("status200") # {} /\ Answered("honor") # {}
    /\ DOMAIN ret.cache # {}

\* ---------------------------------------------------------------- C30
\* C30: when the 206 body of a chunk that is not the last chunk of the file
\* has fewer bytes than the range asked for, the Read fails with an
\* unexpected-EOF error and the short chunk is neither cached nor served.
C30_ShortChunkIsError ==
    (Constructed /\ ret.op = "Read") =>
        \A g \in Answered("short") :
            g.chunkEnd < rrs.size - 1 =>
                /\ ret.err = "unexpected EOF"
                /\ g.chunkStart \notin DOMAIN rrs.cache

\* ---------------------------------------------------------------- C31
\* The partitions of the manifest with the given name, and the one the
\* legacy path is to take without a partition name: the first init_boot,
\* else the first boot.
Named(n) ==
    {i \in 1..Len(manifest.partitions) : manifest.partitions[i].partition_name = n}
AutoSelected ==
    LET S == IF Named("init_boot") # {} THEN Named("init_boot") ELSE Named("boot")
    IN CHOOSE i \in S : \A j \in S : i <= j

\* ExtractBootFromPayload returned, or ended in log.Fatalln, on a sound
\* payload and without a partition name.
BootRanUnnamed ==
    /\ entry = "boot" /\ partition = "" /\ pc \in {"done", "fatal"}
    /\ src = Payload(GoodHdr(manifest), manifest) /\ manifest.minor_version = 0

\* C31: without a partition name the legacy path takes init_boot if the
\* manifest has it, else boot, and extracts that partition to its image; it
\* ends in the fatal "boot partition not found" only when the manifest has
\* neither.
C31_AutoSelectBoot ==
    BootRanUnnamed =>
        IF Named("init_boot") \cup Named("boot") # {}
        THEN /\ pc = "done" /\ err = "nil"
             /\ ImgPath(manifest.partitions[AutoSelected]) \in DOMAIN files
        ELSE pc = "fatal"

\* ---------------------------------------------------------------- C32
\* C32: whichever way a Read of the RangeReadSeeker returns (bytes, EOF, a
\* fetch error, an empty or short chunk), it has released the mutex it took,
\* so the next Read, Seek or Close on the reader can take it.
C32_ReadReleasesMutex ==
    (Constructed /\ ret.op = "Read") => ~rrs.locked

\* ---------------------------------------------------------------- C33
\* C33: every task submitted to the pool signals the partition's WaitGroup
\* exactly once, whatever the manifest (operations without a destination
\* extent and of an unknown type included): the count left is that of the
\* tasks still in the pool (plus the one added and not yet submitted), so
\* when the pool has no task of the partition left the barrier wait returns
\* and the run goes on to the next partition or the end.
C33_EveryTaskSignals ==
    entry = "extract" =>
        /\ \A i \in DOMAIN wg :
              wg[i] = Cardinality(Pending(i))
                        + (IF i = idx /\ pc = "submit" THEN 1 ELSE 0)
        /\ (pc = "wait" /\ Pending(idx) = {}) =>
              ENABLED extractPartitionFromPayload_Wait

\* ---------------------------------------------------------------- C34
\* C34: when InitPayloadInfo rejects the payload inside
\* ExtractPartitionsFromPayload, out_dir holds after the call what it held
\* before: no file is created, changed or removed.
C34_RejectedLeavesOutDir ==
    [][(entry = "extract" /\ pc = "start" /\ pc' = "fatal") => files' = files]_vars

\* ---------------------------------------------------------------- C35
\* C35: whichever way a Read of the RangeReadSeeker returns, the cursor has
\* advanced by the count n it reports, and the n bytes are those of the
\* remote file from the cursor on: Reads without a Seek between them return
\* consecutive bytes, also when a later chunk's fetch fails after bytes of
\* earlier chunks were copied.
C35_CursorAdvancesByN ==
    (Constructed /\ ret.op = "Read") =>
        /\ rrs.currentOffset = ret.at + ret.n
        /\ ret.n = Len(ret.data)
        /\ \A i \in 1..ret.n : ret.at + i <= Len(server.file)
                                /\ ret.data[i] = server.file[ret.at + i]

\* ---------------------------------------------------------------- C36
\* The ZipPayloadReader holds an open stream on a deflated entry.
StreamOpen ==
    /\ entry = "NewZipPayloadReader"
    /\ zpr # NoReader /\ zpr.state = "ready"
    /\ archive[zpr.zf].method = "deflate" /\ zpr.stream = "open"

\* C36: while a decompression stream is open, streamStart + streamOffset is
\* the number of decompressed bytes consumed from the stream since it was
\* opened, after every outcome of ReadAt and Read (a stream read that returns
\* bytes together with EOF and a discard that skips fewer than off bytes
\* included): no byte consumed from the stream is lost to the caller.
C36_StreamPosition ==
    StreamOpen => zpr.streamStart + zpr.streamOffset = zpr.at

\* ---------------------------------------------------------------- C37
\* The step in which caller c returns from ZipPayloadReader.ReadAt.
ReadAtReturns(c) ==
    /\ entry = "NewZipPayloadReader"
    /\ zpr # NoReader /\ zpr.state = "ready" /\ zpr.calls[c] = "ReadAt"
    /\ zpr' # NoReader /\ zpr'.state = "ready" /\ zpr'.calls[c] = "idle"

\* C37: ReadAt is a positioned read: the position used by the next Read or
\* Seek(SeekCurrent) is the same before and after every call of ReadAt.
C37_ReadAtKeepsCursor ==
    [][\A c \in Callers : ReadAtReturns(c) => zpr'.pos = zpr.pos]_vars

\* ---------------------------------------------------------------- C38
\* A constructed ZipPayloadReader, and the entry it reads.
PayloadReaderReady ==
    entry = "NewZipPayloadReader" /\ zpr # NoReader /\ zpr.state = "ready"

PayloadEntry == archive[zpr.zf]

\* The last call was a ReadAt or Read of a stored entry.
StoredRead ==
    /\ PayloadReaderReady /\ PayloadEntry.method = "store"
    /\ ret.op \in {"ReadAt", "Read"}

\* The cursor lies within the entry.
CursorInEntry == 0 <= zpr.pos /\ zpr.pos <= Len(PayloadEntry.data)

\* The bytes returned are bytes of the entry at offsets [off, off + n).
BytesOfEntry ==
    /\ ret.n = Len(ret.data)
    /\ ret.n > 0 => /\ 0 <= ret.off /\ ret.off + ret.n <= Len(PayloadEntry.data)
                    /\ ret.data = SubSeq(PayloadEntry.data, ret.off + 1,
                                         ret.off + ret.n)

\* C38: the ZipPayloadReader never exposes bytes outside the payload.bin
\* entry: a ReadAt or Read of a stored entry returns only bytes at entry
\* offsets in [0, uncompressed_size), and after any sequence of Seek calls
\* the cursor satisfies 0 <= pos <= uncompressed_size.
C38_StaysInsideEntry ==
    /\ PayloadReaderReady => CursorInEntry
    /\ StoredRead => BytesOfEntry

\* ---------------------------------------------------------------- C39
\* The i-th selected partition has no operations, or its last operation has
\* no destination extents.
Degenerate(i) ==
    entry = "extract" /\ i \in 1..Len(all_parts) /\ NilDereference(all_parts[i])

\* C39: a selected partition with no operations, or whose last operation has
\* no destination extents, is handled without fault: the size computation
\* yields 0 from the not-found result of `last` and the run goes on with the
\* remaining partitions, so the run never ends in a panic at such a partition.
C39_DegenerateHandled ==
    \A i \in 1..Len(all_parts) : Degenerate(i) => ~(pc = "panic" /\ idx = i)

====
